---- MODULE Spec2Model ----
(***************************************************************************)
(* Model of server/services/profile_scraper.py: one invocation of main     *)
(* and scrape_profiles, from the dispatch on the platform string to the    *)
(* list printed on stdout, with every step of the browser session that     *)
(* can fail (Spec), the same call with the operations it awaits recorded   *)
(* (SpecPace), two calls interleaved at their awaits (SpecConcurrent), and *)
(* the four extractors applied to one profile page                         *)
(* (SpecExtract); of server/utils/extract_pdf.py (SpecPdf); and of the     *)
(* name and skill extraction of server/utils/parse_resume_full.py          *)
(* (SpecResume).                                                           *)
(*                                                                         *)
(* Python strings are modelled as sequences of one-character strings, so   *)
(* that lower(), strip(), startswith(), count() and the regular            *)
(* expressions are computed character by character.                       *)
(***************************************************************************)
EXTENDS Integers, Sequences, FiniteSets, TLC

(***************************************************************************)
(* Bounds of the model                                                     *)
(***************************************************************************)
\* largest value of --max that is explored (the smallest is -MaxNeg)
MaxCap == 2
\* number of links the listing page hands to the selector strategies
MaxLinks == 3
\* number of href matches the regex scan of the markup yields
MaxMatches == 2

(***************************************************************************)
(* Python string operations                                                *)
(***************************************************************************)
UpperCase == <<"A","B","C","D","E","F","G","H","I","J","K","L","M",
               "N","O","P","Q","R","S","T","U","V","W","X","Y","Z">>
LowerCase == <<"a","b","c","d","e","f","g","h","i","j","k","l","m",
               "n","o","p","q","r","s","t","u","v","w","x","y","z">>
Digits == {"0","1","2","3","4","5","6","7","8","9"}
WhiteSpace == {" ", "\t", "\n"}

\* str.lower() on one character
LowerChar(c) ==
    IF \E i \in 1..26 : UpperCase[i] = c
    THEN LowerCase[CHOOSE i \in 1..26 : UpperCase[i] = c]
    ELSE c

\* a lower() that leaves the string as given
LowerNothing(s) == s

\* str.lower()
Lower(s) == [i \in 1..Len(s) |-> LowerChar(s[i])]

\* str.startswith(p)
StartsWith(s, p) == Len(s) >= Len(p) /\ SubSeq(s, 1, Len(p)) = p

\* str.count(c) for a one-character c
Count(s, c) == Cardinality({i \in 1..Len(s) : s[i] = c})

\* str.lstrip() and str.rstrip()
RECURSIVE LStrip(_)
LStrip(s) ==
    IF s # <<>> /\ Head(s) \in WhiteSpace THEN LStrip(Tail(s)) ELSE s

RECURSIVE RStrip(_)
RStrip(s) ==
    IF s # <<>> /\ s[Len(s)] \in WhiteSpace
    THEN RStrip(SubSeq(s, 1, Len(s) - 1)) ELSE s

\* str.strip()
Strip(s) == RStrip(LStrip(s))

\* p in s, for strings
Contains(s, p) ==
    \E i \in 1..(Len(s) - Len(p) + 1) : SubSeq(s, i, i + Len(p) - 1) = p

\* x in xs, for a list xs
InList(x, xs) == \E i \in 1..Len(xs) : xs[i] = x

\* a loop over the whole list, as if the slice were missing
SliceAll(xs, n) == xs

\* xs[:n], with Python's meaning of a negative n
SlicePrefix(xs, n) ==
    IF n >= 0
    THEN SubSeq(xs, 1, IF n < Len(xs) THEN n ELSE Len(xs))
    ELSE SubSeq(xs, 1, IF Len(xs) + n > 0 THEN Len(xs) + n ELSE 0)

\* bool(s) for a string: the empty string is falsy
Truthy(s) == s # <<>>

(***************************************************************************)
(* scrape_profiles: the dispatch on platform.lower()                       *)
(***************************************************************************)
GITHUB == <<"g","i","t","h","u","b">>
BEHANCE == <<"b","e","h","a","n","c","e">>
STACKOVERFLOW == <<"s","t","a","c","k","o","v","e","r","f","l","o","w">>
DEVTO == <<"d","e","v","t","o">>

\* a dispatch whose else branch falls back to the default platform
PipelineOfDefaulting(p) ==
    IF p = BEHANCE THEN "behance"
    ELSE IF p = STACKOVERFLOW THEN "stackoverflow"
    ELSE IF p = DEVTO THEN "devto"
    ELSE "github"

\* the pipeline that the if/elif chain selects for the lower-cased string
PipelineOf(p) ==
    IF p = GITHUB THEN "github"
    ELSE IF p = BEHANCE THEN "behance"
    ELSE IF p = STACKOVERFLOW THEN "stackoverflow"
    ELSE IF p = DEVTO THEN "devto"
    ELSE "none"

\* platform strings given to --platform
Platforms ==
    { <<"G","i","t","H","u","b">>, <<"B","e","h","a","n","c","e">>, <<"s","t","a","c","k","o","v","e","r","f","l","o","w">>, <<"d","e","v","t","o">>, <<"D","e","v","T","o">>,
      <<"g","i","t","l","a","b">>, <<"g","i","t","h","u","b"," ">>, <<>> }

(***************************************************************************)
(* Discovery: which links of the listing page become candidate URLs        *)
(***************************************************************************)
GithubHost == <<"h","t","t","p","s",":","/","/","g","i","t","h","u","b",".","c","o","m">>
BehancePrefix == <<"h","t","t","p","s",":","/","/","w","w","w",".","b","e","h","a","n","c","e",".","n","e","t","/">>
StackOverflowHost == <<"h","t","t","p","s",":","/","/","s","t","a","c","k","o","v","e","r","f","l","o","w",".","c","o","m">>
DevtoHost == <<"h","t","t","p","s",":","/","/","d","e","v",".","t","o">>

\* the guard without its test against existing_urls
AdmitIgnoringExisting(full_url, urls, existing) == ~InList(full_url, urls)

\* the guard without its test against profile_urls
AdmitWithoutDedup(full_url, urls, existing) == full_url \notin existing

\* full_url not in profile_urls and full_url not in existing_urls
Admit(full_url, urls, existing) ==
    ~InList(full_url, urls) /\ full_url \notin existing

\* profile_urls after the guarded profile_urls.append(full_url)
AppendIf(ok, urls, full_url, existing) ==
    IF ok /\ Admit(full_url, urls, existing) THEN Append(urls, full_url) ELSE urls

\* --- GitHub ---
github_skip_paths ==
    { <<"s","e","a","r","c","h">>, <<"e","x","p","l","o","r","e">>, <<"m","a","r","k","e","t","p","l","a","c","e">>, <<"f","e","a","t","u","r","e","s">>, <<"p","r","i","c","i","n","g">>, <<"l","o","g","i","n">>,
      <<"s","i","g","n","u","p">>, <<"j","o","i","n">>, <<"s","e","t","t","i","n","g","s">>, <<"n","o","t","i","f","i","c","a","t","i","o","n","s">>, <<"a","b","o","u","t">> }

\* href and href.startswith('/') and href.count('/') == 1
GithubSelectorAccepts(href) ==
    Truthy(href) /\ StartsWith(href, <<"/">>) /\ Count(href, "/") = 1

\* the filter with the path compared as written, not lower-cased
GithubFallbackAcceptsAnyCase(match) ==
    /\ Count(match, "/") = 1
    /\ LET path == SubSeq(match, 2, Len(match))
       IN  Truthy(path) /\ Len(path) > 1 /\ path \notin github_skip_paths

\* the filter on one match of  href="(/[a-zA-Z0-9_-]+)"
GithubFallbackAccepts(match) ==
    /\ Count(match, "/") = 1
    /\ LET path == SubSeq(match, 2, Len(match))
       IN  Truthy(path) /\ Len(path) > 1 /\ Lower(path) \notin github_skip_paths

GithubFullUrl(href) == GithubHost \o href

\* the candidate count below which the markup is scanned
FallbackThreshold == 3

\* href values the selector strategies may read
GithubHrefs == { <<"/","a","l">>, <<"/","b","o">>, <<"/","c","y">>, <<"/","a","b","o","u","t">>, <<"/","o","/","r">>, <<"a","l">>, <<>> }

\* a character of the class [a-zA-Z0-9_-]
IsWordChar(c) ==
    \/ \E i \in 1..26 : c = UpperCase[i] \/ c = LowerCase[i]
    \/ c \in Digits \/ c \in {"_", "-"}

\* the strings the group (/[a-zA-Z0-9_-]+) can capture
GithubHrefPattern(m) ==
    Len(m) >= 2 /\ m[1] = "/" /\ \A i \in 2..Len(m) : IsWordChar(m[i])

\* matches re.findall may return from the markup
GithubMatches ==
    { m \in { <<"/","a","l">>, <<"/","d","x">>, <<"/","a">>, <<"/","A","b","o","u","t">>, <<"/","j","o","i","n">> } : GithubHrefPattern(m) }

\* --- Behance ---
behance_skip_paths ==
    { <<"s","e","a","r","c","h">>, <<"g","a","l","l","e","r","i","e","s">>, <<"j","o","b","l","i","s","t">>, <<"a","d","o","b","e">>, <<"f","e","a","t","u","r","e","s">>, <<"a","s","s","e","t","s">>,
      <<"o","n","b","o","a","r","d","i","n","g">>, <<"h","i","r","e">>, <<"l","o","g","i","n">>, <<"s","i","g","n","u","p">>, <<"p","r","i","v","a","c","y">>, <<"t","o","s">>, <<"h","e","l","p">>,
      <<"f","e","e","d","b","a","c","k">>, <<"m","i","s","c">>, <<"a","b","o","u","t">>, <<"c","a","r","e","e","r","s">>, <<"g","a","l","l","e","r","y">> }

\* s.split(c)[0]: the part of s before the first c
SplitFirst(s, c) ==
    IF \E i \in 1..Len(s) : s[i] = c
    THEN SubSeq(s, 1, (CHOOSE i \in 1..Len(s) :
                          s[i] = c /\ \A j \in 1..(i-1) : s[j] # c) - 1)
    ELSE s

\* match.replace('https://www.behance.net/', ''), for a match of the regex,
\* which holds the prefix once, at its start
RemovePrefix(s, p) == IF StartsWith(s, p) THEN SubSeq(s, Len(p) + 1, Len(s)) ELSE s

BehancePath(match) == SplitFirst(SplitFirst(RemovePrefix(match, BehancePrefix), "/"), "?")

BehanceAccepts(match) ==
    LET path == BehancePath(match)
    IN  /\ Truthy(path) /\ Len(path) > 2
        /\ Lower(path) \notin behance_skip_paths
        /\ ~StartsWith(path, <<"g","a","l","l","e","r","y">>)

\* the strings href="(https://www\.behance\.net/[a-zA-Z0-9_-]+)" can capture
BehanceHrefPattern(m) ==
    /\ StartsWith(m, BehancePrefix) /\ Len(m) > Len(BehancePrefix)
    /\ \A i \in (Len(BehancePrefix) + 1)..Len(m) : IsWordChar(m[i])

BehanceMatches ==
    { m \in { BehancePrefix \o seg :
                seg \in { <<"a","n","n">>, <<"b","e","n">>, <<"c","a","t">>, <<"a","b">>, <<"S","e","a","r","c","h">>, <<"g","a","l","l","e","r","y","9">> } } :
        BehanceHrefPattern(m) }

\* --- Stack Overflow ---
\* re.match(r'.*/users/\d+/.*', u) or re.match(r'.*/users/\d+$', u)
StackOverflowUserPattern(u) ==
    \E i \in 1..Len(u) : \E k \in 1..Len(u) :
        /\ i + 6 + k <= Len(u)
        /\ SubSeq(u, i, i + 6) = <<"/","u","s","e","r","s","/">>
        /\ \A j \in (i + 7)..(i + 6 + k) : u[j] \in Digits
        /\ \/ i + 6 + k = Len(u)
           \/ u[i + 7 + k] = "/"

\* href if href.startswith('http') else f"https://stackoverflow.com{href}"
StackOverflowFullUrl(href) ==
    IF StartsWith(href, <<"h","t","t","p">>) THEN href ELSE StackOverflowHost \o href

StackOverflowAccepts(href) ==
    /\ Truthy(href) /\ Contains(href, <<"/","u","s","e","r","s","/">>)
    /\ StackOverflowUserPattern(StackOverflowFullUrl(href))

StackOverflowHrefs ==
    { <<"/","u","s","e","r","s","/","1","2","/","j","o">>, <<"h","t","t","p","s",":","/","/","s","t","a","c","k","o","v","e","r","f","l","o","w",".","c","o","m","/","u","s","e","r","s","/","1","2","/","j","o">>, <<"/","u","s","e","r","s","/","7">>,
      <<"/","u","s","e","r","s","/","3","4","/","e","d">>, <<"/","u","s","e","r","s","/","x">>, <<"/","t","a","g","s">> }

\* --- Dev.to ---
devto_skip ==
    { <<"s","e","a","r","c","h">>, <<"t","o","p">>, <<"l","a","t","e","s","t">>, <<"s","e","t","t","i","n","g","s">>, <<"e","n","t","e","r">>, <<"s","i","g","n","o","u","t">>, <<"s","i","g","n","i","n">>,
      <<"n","o","t","i","f","i","c","a","t","i","o","n","s">>, <<"r","e","a","d","i","n","g">>, <<"n","e","w">>, <<"t","a","g","s">>, <<"a","b","o","u","t">>, <<"t">>, <<"h","t","m","l">>, <<"c","s","s">>,
      <<"j","a","v","a","s","c","r","i","p","t">>, <<"p","y","t","h","o","n">>, <<"w","e","b","d","e","v">>, <<"r","e","a","c","t">> }

DevtoAccepts(href) ==
    /\ Truthy(href) /\ StartsWith(href, <<"/">>) /\ Count(href, "/") = 1
    /\ LET path == SubSeq(href, 2, Len(href))
       IN  Truthy(path) /\ Len(path) > 2 /\ Lower(path) \notin devto_skip

DevtoFullUrl(href) == DevtoHost \o href

DevtoHrefs == { <<"/","a","m","y">>, <<"/","b","o","b">>, <<"/","c","a","l">>, <<"/","t","o">>, <<"/","T","o","p">>, <<"/","a","/","b">>, <<>> }

\* URLs the caller may already know (--existing)
ExistingPool ==
    { GithubFullUrl(<<"/","a","l">>), BehancePrefix \o <<"a","n","n">>,
      StackOverflowFullUrl(<<"/","u","s","e","r","s","/","1","2","/","j","o">>), DevtoFullUrl(<<"/","a","m","y">>) }

(***************************************************************************)
(* Extraction of fullName: the ordered selector chains of the extractors   *)
(***************************************************************************)
\* what one strategy meets: no element, an exception, or an element's text
NoElement == [kind |-> "none", text |-> <<>>]
Raises == [kind |-> "raise", text |-> <<>>]
Element(t) == [kind |-> "text", text |-> t]

\* the bound of  len(text) < 100
NameLimit == 100

\* inner_text() values of the name and username elements
NameTexts == { <<>>, <<" "," ">>, <<"A">>, <<" ","A","l","\n">> }

\* a text as long as the limit, for the extractors that have one
LongText == [i \in 1..NameLimit |-> "x"]

Outcomes == {NoElement, Raises} \cup {Element(t) : t \in NameTexts}
LimitedOutcomes == Outcomes \cup {Element(LongText)}

\* a chain that a raising strategy ends: only the strategies before the
\* first exception count
FoundBeforeRaise(outs) ==
    {i \in 1..Len(outs) :
        outs[i].kind = "text" /\ \A j \in 1..i : outs[j].kind # "raise"}

\* the strategies of a chain that find an element
Found(outs) == {i \in 1..Len(outs) : outs[i].kind = "text"}

\* a chain of strategies with break: hits are the strategies whose element
\* exists and whose stripped text passes the test; the value is the stripped
\* text of the first of them, and '' when there is none
ChainValue(outs, hits) ==
    IF hits = {} THEN <<>>
    ELSE Strip(outs[CHOOSE i \in hits : \A j \in hits : i <= j].text)

GithubNameAccepts(text) == Truthy(text) /\ Len(text) > 1
BehanceNameAccepts(text) == Truthy(text) /\ Len(text) > 1 /\ Len(text) < NameLimit
StackOverflowNameAccepts(text) == Truthy(text) /\ Len(text) < NameLimit
DevtoNameAccepts(text) == Truthy(text) /\ Len(text) > 1 /\ Len(text) < NameLimit

\* a GitHub profile page: the three name selectors and the username element
GithubPages == [name : [1..3 -> Outcomes], nick : Outcomes]
\* the other platforms: four name selectors
NamePages == [1..4 -> LimitedOutcomes]

\* extract_github_profile: the name chain, then the fallback to the username
GithubFullName(page) ==
    LET name == ChainValue(page.name,
                    {i \in Found(page.name) :
                        GithubNameAccepts(Strip(page.name[i].text))})
    IN  IF Truthy(name) THEN name
        ELSE IF page.nick.kind = "text" THEN Strip(page.nick.text)
        ELSE <<>>

BehanceFullName(page) ==
    ChainValue(page, {i \in Found(page) : BehanceNameAccepts(Strip(page[i].text))})

StackOverflowFullName(page) ==
    ChainValue(page, {i \in Found(page) :
                        StackOverflowNameAccepts(Strip(page[i].text))})

DevtoFullName(page) ==
    ChainValue(page, {i \in Found(page) : DevtoNameAccepts(Strip(page[i].text))})

\* the fullName values the extractors produce over all pages
GithubNames == {GithubFullName(pg) : pg \in GithubPages}
BehanceNames == {BehanceFullName(pg) : pg \in NamePages}
StackOverflowNames == {StackOverflowFullName(pg) : pg \in NamePages}
DevtoNames == {DevtoFullName(pg) : pg \in NamePages}

NamesOf(pl) ==
    IF pl = "github" THEN GithubNames
    ELSE IF pl = "behance" THEN BehanceNames
    ELSE IF pl = "stackoverflow" THEN StackOverflowNames
    ELSE DevtoNames

\* one tag pasted into every pipeline
SourceOfOneTag(pl) == "GitHub"

\* profile['source']
SourceOf(pl) ==
    IF pl = "github" THEN "GitHub"
    ELSE IF pl = "behance" THEN "Behance"
    ELSE IF pl = "stackoverflow" THEN "Stack Overflow"
    ELSE "Dev.to"

\* the record an extractor returns for profile_url
Extracted(pl, profile_url) ==
    {[profileUrl |-> profile_url, fullName |-> n] : n \in NamesOf(pl)}

(***************************************************************************)
(* State of one invocation                                                 *)
(***************************************************************************)
\* number of URLs in --existing that is explored
MaxExisting == 1

VARIABLES
    platform,       \* the platform argument, as given
    max_profiles,   \* --max
    existing_urls,  \* --existing
    pc,             \* where the call stands
    pipeline,       \* the pipeline the dispatch selected
    browser,        \* the local 'browser': "none" (None), "open", "closed"
    closeCalls,     \* how often browser.close() was awaited
    created,        \* how many browsers, contexts and pages the call created
    searched,       \* the listing navigation: "no", "ok", "failed"
    scrolls,        \* 'End' key presses done (Behance, Dev.to)
    sel,            \* GitHub: index of the selector strategy being read
    linksLeft,      \* links of the listing page not yet handed out
    matchesLeft,    \* matches of the markup scan not yet handed out
    rejected,       \* why links of proper shape were not appended so far
    profile_urls,   \* candidates, in discovery order
    cands,          \* the list the aggregation loop iterates
    idx,            \* index in cands of the next candidate
    scraped,        \* the success counter of Behance and Dev.to
    navigated,      \* profile URLs page.goto was called with, in order
    failed,         \* profile URLs whose iteration ended in the except branch
    profiles,       \* the list 'profiles'
    result,         \* the list returned to the caller
    timing,         \* whether the operations awaited are recorded
    awaited,        \* the navigations, key presses and delays awaited, in order
    stdout,         \* what was written to sys.stdout, in order
    stderr,         \* the kinds of message written to sys.stderr
    pdf_file,       \* extract_pdf.py: the document behind pdf_path
    pdf_pc,         \* extract_pdf.py: where extract_text_from_pdf stands
    page_num,       \* extract_pdf.py: index of the next page of the loop
    extracted_text, \* extract_pdf.py: the text accumulated so far
    exit_status,    \* extract_pdf.py: argument of sys.exit, -1 while running
    resume_text,    \* parse_resume_full.py: the raw text of the resume
    records,        \* parse_resume_full.py: the records of the runs so far
    site,           \* the extractor that is applied to a profile page
    dom,            \* what the strategies of that extractor meet on the page
    extracted,      \* the record the extractor returned, once it has
    calls,          \* concurrent calls: the local state of each call
    shared_existing,\* concurrent calls: the one list passed as existing_urls
    USER_AGENTS,    \* concurrent calls: the module-level list of user agents
    web             \* concurrent calls: the listing and the profile pages

vars == <<platform, max_profiles, existing_urls, pc, pipeline, browser,
          closeCalls, created, searched, scrolls, sel, linksLeft, matchesLeft,
          rejected, profile_urls, cands, idx, scraped, navigated, failed, profiles,
          result, timing, awaited, stdout, stderr, pdf_file, pdf_pc, page_num, extracted_text,
          exit_status, resume_text, records, site, dom, extracted, calls,
          shared_existing, USER_AGENTS, web>>

inputs == <<platform, max_profiles, existing_urls, timing>>
session == <<browser, closeCalls, created>>
discovery == <<scrolls, sel, linksLeft, matchesLeft, rejected, profile_urls>>
loop == <<cands, idx, scraped, navigated, failed, profiles>>
scraperVars == <<inputs, pc, pipeline, session, searched, discovery, loop, result,
                 awaited>>
pdfVars == <<pdf_file, pdf_pc, page_num, extracted_text, exit_status>>
resumeVars == <<resume_text, records>>
extractorVars == <<site, dom, extracted>>
concurrentVars == <<calls, shared_existing, USER_AGENTS, web>>
notScraper == <<pdfVars, resumeVars, extractorVars, concurrentVars>>

\* the other programs of the repository are not running
PdfIdle ==
    /\ pdf_file = <<>>
    /\ pdf_pc = "idle"
    /\ page_num = 1
    /\ extracted_text = <<>>
    /\ exit_status = -1

ResumeIdle == resume_text = <<>> /\ records = <<>>

ExtractorIdle == site = "none" /\ dom = <<>> /\ extracted = <<>>

ConcurrentIdle ==
    /\ calls = <<>>
    /\ shared_existing = {}
    /\ USER_AGENTS = {}
    /\ web = <<>>

ScraperIdle ==
    /\ platform = <<>>
    /\ max_profiles = 0
    /\ existing_urls = {}
    /\ pc = "idle"
    /\ pipeline = "none"
    /\ browser = "none"
    /\ closeCalls = 0
    /\ created = [browser |-> 0, context |-> 0, page |-> 0]
    /\ searched = "no"
    /\ scrolls = 0
    /\ sel = 1
    /\ linksLeft = 0
    /\ matchesLeft = 0
    /\ rejected = {}
    /\ profile_urls = <<>>
    /\ cands = <<>>
    /\ idx = 1
    /\ scraped = 0
    /\ navigated = <<>>
    /\ failed = <<>>
    /\ profiles = <<>>
    /\ result = <<>>
    /\ timing = FALSE
    /\ awaited = <<>>

\* a call of main that is about to call scrape_profiles
InitCall ==
    /\ PdfIdle /\ ResumeIdle /\ ExtractorIdle /\ ConcurrentIdle
    /\ stdout = <<>>
    /\ stderr = {}
    /\ platform \in Platforms
    /\ max_profiles \in (-1)..MaxCap
    /\ existing_urls \in {e \in SUBSET ExistingPool : Cardinality(e) <= MaxExisting}
    /\ pc = "start"
    /\ pipeline = "none"
    /\ browser = "none"
    /\ closeCalls = 0
    /\ created = [browser |-> 0, context |-> 0, page |-> 0]
    /\ searched = "no"
    /\ scrolls = 0
    /\ sel = 1
    /\ linksLeft = MaxLinks
    /\ matchesLeft = MaxMatches
    /\ rejected = {}
    /\ profile_urls = <<>>
    /\ cands = <<>>
    /\ idx = 1
    /\ scraped = 0
    /\ navigated = <<>>
    /\ failed = <<>>
    /\ profiles = <<>>
    /\ result = <<>>
    /\ awaited = <<>>

Init == InitCall /\ timing = FALSE

(***************************************************************************)
(* scrape_profiles and the session of a platform pipeline                  *)
(***************************************************************************)
\* the dispatch: a known platform starts its pipeline, any other string
\* prints "Unknown platform" and returns []
scrape_profiles ==
    /\ pc = "start"
    /\ pipeline' = PipelineOf(Lower(platform))
    /\ IF pipeline' = "none"
       THEN /\ pc' = "returned" /\ result' = <<>>
            /\ stderr' = stderr \cup {"platform", "unknown"}
       ELSE /\ pc' = "launch" /\ UNCHANGED result
            /\ stderr' = stderr \cup {"platform"}
    /\ UNCHANGED <<notScraper, awaited, inputs, stdout, session, searched, discovery, loop>>

\* an exception inside the outer try: control goes to its except clause
Raise ==
    /\ pc' = "except"
    /\ UNCHANGED rejected
    /\ UNCHANGED <<notScraper, awaited, inputs, stdout, pipeline, closeCalls, created,
                   scrolls, sel, linksLeft, matchesLeft, profile_urls, loop,
                   result>>

\* browser = await p.chromium.launch(...)
Launch ==
    /\ pc = "launch"
    /\ \/ /\ browser' = "open"
          /\ created' = [created EXCEPT !.browser = @ + 1]
          /\ pc' = "context"
          /\ UNCHANGED <<notScraper, awaited, inputs, stdout, stderr, pipeline, closeCalls, searched, discovery,
                         loop, result>>
       \/ Raise /\ UNCHANGED <<browser, searched, stderr>>

\* context = await browser.new_context(...)
NewContext ==
    /\ pc = "context"
    /\ \/ /\ created' = [created EXCEPT !.context = @ + 1]
          /\ pc' = "page"
          /\ UNCHANGED <<notScraper, awaited, inputs, stdout, stderr, pipeline, browser,
                         closeCalls, searched, discovery, loop, result>>
       \/ Raise /\ UNCHANGED <<browser, searched, stderr>>

\* a page opened twice over
NewPageTwice ==
    /\ pc = "page"
    /\ created' = [created EXCEPT !.page = @ + 2]
    /\ pc' = "search"
    /\ UNCHANGED <<notScraper, awaited, inputs, stdout, stderr, pipeline, browser,
                   closeCalls, searched, discovery, loop, result>>

\* page = await context.new_page()
NewPage ==
    /\ pc = "page"
    /\ \/ /\ created' = [created EXCEPT !.page = @ + 1]
          /\ pc' = "search"
          /\ UNCHANGED <<notScraper, awaited, inputs, stdout, stderr, pipeline, browser,
                         closeCalls, searched, discovery, loop, result>>
       \/ Raise /\ UNCHANGED <<browser, searched, stderr>>

Scrolling(pl) == pl \in {"behance", "devto"}

\* the number of 'End' key presses
ScrollCount == 3

\* the pipelines that print "Searching: <url>" before the navigation
Announces(pl) == pl \in {"github", "behance", "stackoverflow"}

\* an awaited operation: a navigation or a key press, or a delay of secs
\* tenths of a second
Did(op, ok) == [op |-> op, ok |-> ok, secs |-> 0]
Slept(secs) == [op |-> "sleep", ok |-> TRUE, secs |-> secs]

\* await asyncio.sleep(3) after the listing navigation, sleep(4) on Behance
SearchSettle(pl) == IF pl = "behance" THEN 40 ELSE 30

\* await asyncio.sleep(1.5) after a key press on Behance, sleep(1) on Dev.to
ScrollPause(pl) == IF pl = "behance" THEN 15 ELSE 10

\* one range of delays on every platform
ThrottleOneRange(pl) == {15, 20, 25}

\* random.uniform(1.5, 2.5), and random.uniform(2, 3) on Behance: the
\* smallest, the middle and the largest value
Throttle(pl) == IF pl = "behance" THEN {20, 25, 30} ELSE {15, 20, 25}

\* await asyncio.sleep(1) after a profile navigation, sleep(2) on Behance
ProfileSettle(pl) == IF pl = "behance" THEN 20 ELSE 10

\* the delays a step may draw; where the operations are not recorded a
\* draw leaves no trace and one draw stands for all
ThrottleDraws ==
    IF timing THEN Throttle(pipeline)
    ELSE {CHOOSE d \in Throttle(pipeline) : TRUE}

\* awaited, with the operations a step completed added to it
Record(events) == IF timing THEN awaited \o events ELSE awaited

\* print(f"[...] Searching: {search_url}", file=sys.stderr), then
\* await page.goto(search_url, ...)
SearchGoto ==
    /\ pc = "search"
    /\ stderr' = IF Announces(pipeline) THEN stderr \cup {"searching"}
                 ELSE stderr
    /\ \/ /\ searched' = "ok"
          /\ pc' = IF Scrolling(pipeline) THEN "scroll" ELSE "discover"
          /\ awaited' = Record(<<Did("goto_search", TRUE),
                                  Slept(SearchSettle(pipeline))>>)
          /\ UNCHANGED <<notScraper, inputs, stdout, pipeline, session,
                         discovery, loop, result>>
       \/ Raise /\ searched' = "failed" /\ UNCHANGED browser

\* for _ in range(3): await page.keyboard.press('End'); await
\* asyncio.sleep(...)
Scroll ==
    /\ pc = "scroll"
    /\ \/ /\ scrolls < ScrollCount
          /\ scrolls' = scrolls + 1
          /\ awaited' = Record(<<Did("press", TRUE),
                                  Slept(ScrollPause(pipeline))>>)
          /\ UNCHANGED <<notScraper, inputs, stdout, stderr, pc, pipeline, session, searched, sel,
                         linksLeft, matchesLeft, rejected, profile_urls, loop,
                         result>>
       \/ /\ scrolls < ScrollCount
          /\ Raise /\ UNCHANGED <<browser, searched, stderr>>
       \/ /\ scrolls = ScrollCount
          /\ pc' = "discover"
          /\ UNCHANGED <<notScraper, awaited, inputs, stdout, stderr, pipeline, session, searched, discovery,
                         loop, result>>

(***************************************************************************)
(* Discovery loops of the four pipelines                                   *)
(***************************************************************************)
\* no platform counts successes: every loop slices the list
CountingNone(pl) == FALSE

\* the platforms whose loop counts successes instead of slicing the list
Counting(pl) == pl \in {"behance", "devto"}

\* a loop that iterates the whole candidate list on every platform
LoopListUncapped(pl, urls, cap) == urls

\* the list the aggregation loop iterates: profile_urls[:max_profiles] on
\* GitHub and Stack Overflow, profile_urls on Behance and Dev.to
LoopList(pl, urls, cap) == IF Counting(pl) THEN urls ELSE SlicePrefix(urls, cap)

\* discovery is over: the aggregation loop starts
StartLoop ==
    /\ pc' = "loop"
    /\ cands' = LoopList(pipeline, profile_urls, max_profiles)
    /\ idx' = 1
    /\ linksLeft' = 0 /\ matchesLeft' = 0 /\ UNCHANGED rejected
    /\ stderr' = stderr \cup {"found"}
    /\ UNCHANGED <<notScraper, awaited, inputs, stdout, pipeline, session, searched, scrolls, sel,
                   profile_urls, scraped, navigated, failed, profiles, result>>

\* the reason the guarded append leaves a link of proper shape out
Rejection(ok, urls, full_url, existing) ==
    IF ok /\ InList(full_url, urls) THEN {"duplicate"}
    ELSE IF ok /\ full_url \in existing THEN {"existing"}
    ELSE {}

\* one link whose href is read and filtered
ReadLink(ok, full_url) ==
    /\ linksLeft > 0
    /\ linksLeft' = linksLeft - 1
    /\ profile_urls' = AppendIf(ok, profile_urls, full_url, existing_urls)
    /\ rejected' = rejected \cup Rejection(ok, profile_urls, full_url, existing_urls)
    /\ UNCHANGED <<notScraper, awaited, inputs, stdout, stderr, pc, pipeline, session, searched, scrolls, sel,
                   matchesLeft, loop, result>>

\* one link that yields no href: get_attribute returns None, or it raises
\* inside a try whose except continues
SkipLink ==
    /\ linksLeft > 0
    /\ linksLeft' = linksLeft - 1
    /\ UNCHANGED rejected
    /\ UNCHANGED <<notScraper, awaited, inputs, stdout, stderr, pc, pipeline, session, searched, scrolls, sel,
                   matchesLeft, profile_urls, loop, result>>

\* the number of selector strategies of the GitHub discovery
GithubSelectors == 4

\* for link in links: one link of the current selector; get_attribute may
\* return None
GithubLink ==
    /\ pc = "discover" /\ pipeline = "github" /\ sel <= GithubSelectors
    /\ \/ \E href \in GithubHrefs :
            ReadLink(GithubSelectorAccepts(href), GithubFullUrl(href))
       \/ SkipLink

\* the links of a selector are exhausted, or the selector raised and the
\* bare except continues with the next one
GithubNextSelector ==
    /\ pc = "discover" /\ pipeline = "github" /\ sel <= GithubSelectors
    /\ sel' = sel + 1
    /\ UNCHANGED rejected
    /\ UNCHANGED <<notScraper, awaited, inputs, stdout, stderr, pc, pipeline, session, searched, scrolls, linksLeft,
                   matchesLeft, profile_urls, loop, result>>

\* if len(profile_urls) < 3: content = await page.content()
GithubFallbackTest ==
    /\ pc = "discover" /\ pipeline = "github" /\ sel > GithubSelectors
    /\ IF Len(profile_urls) < FallbackThreshold
       THEN \/ /\ pc' = "fallback"
               /\ UNCHANGED rejected
               /\ UNCHANGED <<notScraper, awaited, inputs, stdout, stderr, pipeline, session, searched, scrolls,
                              sel, linksLeft, matchesLeft, profile_urls, loop,
                              result>>
            \/ Raise /\ UNCHANGED <<browser, searched, stderr>>
       ELSE StartLoop

\* for match in matches: one match of the markup scan
GithubMatch ==
    /\ pc = "fallback" /\ matchesLeft > 0
    /\ \E match \in GithubMatches :
          /\ profile_urls' = AppendIf(GithubFallbackAccepts(match), profile_urls,
                                      GithubFullUrl(match), existing_urls)
          /\ rejected' = rejected \cup
                 Rejection(GithubFallbackAccepts(match), profile_urls,
                           GithubFullUrl(match), existing_urls)
    /\ matchesLeft' = matchesLeft - 1
    /\ UNCHANGED <<notScraper, awaited, inputs, stdout, stderr, pc, pipeline, session, searched, scrolls, sel,
                   linksLeft, loop, result>>

GithubFallbackDone == pc = "fallback" /\ StartLoop

\* Behance: content = await page.content(), then one match of the scan
BehanceMatch ==
    /\ pc = "discover" /\ pipeline = "behance"
    /\ \/ \E match \in BehanceMatches :
            ReadLink(BehanceAccepts(match), match)
       \/ /\ linksLeft = MaxLinks
          /\ Raise /\ UNCHANGED <<browser, searched, stderr>>

\* Stack Overflow: one link of a[href*="/users/"]; the loop has no try, so
\* a raising query or attribute read ends the discovery
StackOverflowLink ==
    /\ pc = "discover" /\ pipeline = "stackoverflow"
    /\ \/ \E href \in StackOverflowHrefs :
            ReadLink(StackOverflowAccepts(href), StackOverflowFullUrl(href))
       \/ SkipLink
       \/ /\ linksLeft > 0
          /\ Raise /\ UNCHANGED <<browser, searched, stderr>>

\* Dev.to: one author link; a raising attribute read skips the link, a
\* raising query_selector_all ends the discovery
DevtoLink ==
    /\ pc = "discover" /\ pipeline = "devto"
    /\ \/ \E href \in DevtoHrefs :
            ReadLink(DevtoAccepts(href), DevtoFullUrl(href))
       \/ SkipLink
       \/ /\ linksLeft = MaxLinks
          /\ Raise /\ UNCHANGED <<browser, searched, stderr>>

\* the listing has no more links
ListingDone ==
    /\ pc = "discover" /\ pipeline \in {"behance", "stackoverflow", "devto"}
    /\ StartLoop

(***************************************************************************)
(* The aggregation loop                                                    *)
(***************************************************************************)
\* the break test off by one
CapReachedStrict(n, cap) == n > cap

\* if scraped >= max_profiles: break
CapReached(n, cap) == n >= cap

\* the loop has a next candidate to go to
HasNext ==
    /\ pc = "loop"
    /\ idx <= Len(cands)
    /\ Counting(pipeline) => ~CapReached(scraped, max_profiles)

\* an except branch that gives up the whole scrape
AfterItemErrorAbort == "except"

\* where control continues after the except branch of one iteration
AfterItemError == "loop"

\* GitHub prints "Scraping i/n: <url>" before it navigates
ItemLog(pl, log) == IF pl = "github" THEN log \cup {"scraping"} ELSE log

\* a failed navigation after which the page is extracted all the same
ProfileGotoFailsThenExtracts ==
    /\ HasNext
    /\ navigated' = Append(navigated, cands[idx])
    /\ failed' = Append(failed, cands[idx])
    /\ profiles' = Append(profiles, [profileUrl |-> cands[idx],
                                     fullName |-> <<"A">>,
                                     source |-> SourceOf(pipeline)])
    /\ idx' = idx + 1
    /\ pc' = AfterItemError
    /\ stderr' = ItemLog(pipeline, stderr) \cup {"item_error"}
    /\ UNCHANGED <<notScraper, awaited, inputs, stdout, pipeline, session, searched, discovery, cands,
                   scraped, result>>

\* await asyncio.sleep(random.uniform(...)), then page.goto(profile_url)
\* raises (timeout): except ... print ... continue
ProfileGotoFails ==
    /\ HasNext
    /\ navigated' = Append(navigated, cands[idx])
    /\ failed' = Append(failed, cands[idx])
    /\ idx' = idx + 1
    /\ pc' = AfterItemError
    /\ stderr' = ItemLog(pipeline, stderr) \cup {"item_error"}
    /\ \E d \in ThrottleDraws :
          awaited' = Record(<<Slept(d), Did("goto_profile", FALSE)>>)
    /\ UNCHANGED <<notScraper, inputs, stdout, pipeline, session, searched, discovery, cands,
                   scraped, profiles, result>>

\* Dev.to: the page has none of the profile markers (continue), or the
\* query for them raises (except ... continue)
DevtoNotProfile ==
    /\ HasNext /\ pipeline = "devto"
    /\ navigated' = Append(navigated, cands[idx])
    /\ idx' = idx + 1
    /\ \/ /\ failed' = Append(failed, cands[idx]) /\ pc' = AfterItemError
          /\ stderr' = stderr \cup {"item_error"}
       \/ UNCHANGED <<failed, pc, stderr>>
    /\ \E d \in ThrottleDraws :
          awaited' = Record(<<Slept(d), Did("goto_profile", TRUE),
                              Slept(ProfileSettle(pipeline))>>)
    /\ UNCHANGED <<notScraper, inputs, stdout, pipeline, session, searched, discovery, cands,
                   scraped, profiles, result>>

\* a named profile put in front of the list instead of at its end
CollectInFront(list, profile, pl) ==
    IF Truthy(profile.fullName)
    THEN <<[profileUrl |-> profile.profileUrl,
            fullName |-> profile.fullName,
            source |-> SourceOf(pl)]>> \o list
    ELSE list

\* an append without the test of fullName
CollectUnchecked(list, profile, pl) ==
    Append(list, [profileUrl |-> profile.profileUrl,
                  fullName |-> profile.fullName,
                  source |-> SourceOf(pl)])

\* the list after  if profile.get('fullName'): ... profiles.append(profile)
Collect(list, profile, pl) ==
    IF Truthy(profile.fullName)
    THEN Append(list, [profileUrl |-> profile.profileUrl,
                       fullName |-> profile.fullName,
                       source |-> SourceOf(pl)])
    ELSE list

\* await asyncio.sleep(random.uniform(...)), the page loads, await
\* asyncio.sleep(...), and the extractor returns a record
ProfileExtracted ==
    /\ HasNext
    /\ \E profile \in Extracted(pipeline, cands[idx]) :
          /\ profiles' = Collect(profiles, profile, pipeline)
          /\ scraped' = IF Counting(pipeline) /\ Truthy(profile.fullName)
                        THEN scraped + 1 ELSE scraped
          /\ stderr' = IF Truthy(profile.fullName)
                       THEN ItemLog(pipeline, stderr) \cup {"scraped"}
                       ELSE ItemLog(pipeline, stderr)
    /\ navigated' = Append(navigated, cands[idx])
    /\ idx' = idx + 1
    /\ \E d \in ThrottleDraws :
          awaited' = Record(<<Slept(d), Did("goto_profile", TRUE),
                              Slept(ProfileSettle(pipeline))>>)
    /\ UNCHANGED <<notScraper, inputs, stdout, pc, pipeline, session, searched, discovery, cands,
                   failed, result>>

\* the loop ends: the list is exhausted, or the counter reached the cap
LoopExit ==
    /\ pc = "loop" /\ ~HasNext
    /\ pc' = "close"
    /\ UNCHANGED <<notScraper, awaited, inputs, stdout, stderr, pipeline, session, searched, discovery, loop, result>>

(***************************************************************************)
(* The end of the call                                                     *)
(***************************************************************************)
\* line 136: await browser.close() at the end of the try block
Close ==
    /\ pc = "close"
    /\ closeCalls' = closeCalls + 1
    /\ \/ browser' = "closed" /\ pc' = "returned" /\ result' = profiles
       \/ browser' = browser /\ pc' = "except" /\ result' = result
    /\ UNCHANGED <<notScraper, awaited, inputs, stdout, stderr, pipeline, created,
                   searched, discovery, loop>>

\* except Exception: print; if browser: await browser.close(); then
\* return profiles.  A close that raises here leaves the function
Handler ==
    /\ pc = "except"
    /\ stderr' = stderr \cup {"scraper_error"}
    /\ IF browser = "none"
       THEN /\ pc' = "returned" /\ result' = profiles
            /\ UNCHANGED <<browser, closeCalls>>
       ELSE /\ closeCalls' = closeCalls + 1
            /\ \/ browser' = "closed" /\ pc' = "returned" /\ result' = profiles
               \/ browser' = browser /\ pc' = "raised" /\ result' = result
    /\ UNCHANGED <<notScraper, awaited, inputs, stdout, pipeline, created, searched,
                   discovery, loop>>

\* main: print(json.dumps(profiles, indent=2)) once scrape_profiles has
\* returned; an exception that left scrape_profiles leaves main as well
main ==
    /\ pc = "returned"
    /\ pc' = "done"
    /\ stdout' = Append(stdout, result)
    /\ UNCHANGED <<notScraper, awaited, inputs, stderr, pipeline, session, searched,
                   discovery, loop, result>>

Next ==
    \/ scrape_profiles
    \/ Launch \/ NewContext \/ NewPage \/ SearchGoto \/ Scroll
    \/ GithubLink \/ GithubNextSelector \/ GithubFallbackTest
    \/ GithubMatch \/ GithubFallbackDone
    \/ BehanceMatch \/ StackOverflowLink \/ DevtoLink \/ ListingDone
    \/ ProfileGotoFails \/ DevtoNotProfile \/ ProfileExtracted \/ LoopExit
    \/ Close \/ Handler \/ main

Spec == Init /\ [][Next]_vars

\* the same calls with the awaited operations recorded, for the platforms
\* that have a pipeline and the largest --max
InitPace ==
    /\ InitCall
    /\ timing = TRUE
    /\ PipelineOf(Lower(platform)) # "none"
    /\ max_profiles = MaxCap
    /\ existing_urls = {}

SpecPace == InitPace /\ [][Next]_vars

(***************************************************************************)
(* Properties                                                              *)
(***************************************************************************)
\* scrape_profiles has returned its list (main may have printed it)
Returned == pc \in {"returned", "done"}

\* the call is over: it returned its list, or an exception left it
Terminal == pc \in {"returned", "done", "raised"}

\* the profileUrl values of a list of profiles
UrlsOf(list) == {list[i].profileUrl : i \in 1..Len(list)}

\* xs is an initial part of ys
IsPrefix(xs, ys) == Len(xs) <= Len(ys) /\ SubSeq(ys, 1, Len(xs)) = xs

\* C1: on every pipeline and whatever fails, no profile collected so far
\* and no profile of the returned list has a profileUrl that is an element
\* of existing_urls.
C1_NoExistingUrlEmitted ==
    /\ \A i \in 1..Len(profiles) : profiles[i].profileUrl \notin existing_urls
    /\ \A i \in 1..Len(result) : result[i].profileUrl \notin existing_urls

\* the listing held a link to a URL of existing_urls, and the call returned
\* profiles all the same
C1_Witness ==
    /\ Returned
    /\ "existing" \in rejected
    /\ result # <<>>

\* C2: the candidate list, the list being built and the returned list never
\* hold the same profileUrl twice, whatever links the listing page yields.
C2_NoDuplicateUrl ==
    /\ \A i, j \in 1..Len(profile_urls) :
          i # j => profile_urls[i] # profile_urls[j]
    /\ \A i, j \in 1..Len(profiles) :
          i # j => profiles[i].profileUrl # profiles[j].profileUrl
    /\ \A i, j \in 1..Len(result) :
          i # j => result[i].profileUrl # result[j].profileUrl

\* the listing gave the same link twice (GitHub: by a selector and by the
\* markup scan as well), and two profiles were returned
C2_Witness ==
    /\ Returned
    /\ "duplicate" \in rejected
    /\ Len(result) >= 2

\* C3, as claimed: for any integer --max, the returned list has at most
\* max_profiles elements.
C3_LengthAtMostMaxForAnyInteger ==
    Returned => Len(result) <= max_profiles

\* C3, amended: for max_profiles >= 0 the list being built and the returned
\* list have at most max_profiles elements.
C3_LengthAtMostMax ==
    max_profiles >= 0 =>
        Len(profiles) <= max_profiles /\ Len(result) <= max_profiles

\* the cap cut the result: more candidates than max_profiles were found and
\* exactly max_profiles profiles were returned
C3_Witness ==
    /\ Returned
    /\ max_profiles > 0
    /\ Len(profile_urls) > max_profiles
    /\ Len(result) = max_profiles

\* C4: every profile collected or returned has a fullName of at least one
\* character; a candidate extracted without a name is not appended and the
\* loop goes on to the next candidate.
C4_EveryProfileNamed ==
    /\ \A i \in 1..Len(profiles) : Len(profiles[i].fullName) >= 1
    /\ \A i \in 1..Len(result) : Len(result[i].fullName) >= 1

\* on GitHub a candidate was loaded and extracted without a name, was left
\* out, and a later candidate was appended
C4_Witness ==
    /\ Returned
    /\ pipeline = "github"
    /\ \E i, j \in 1..Len(navigated) :
          /\ i < j
          /\ ~InList(navigated[i], failed)
          /\ navigated[i] \notin UrlsOf(result)
          /\ navigated[j] \in UrlsOf(result)

\* C5: scrape_profiles never raises to its caller, whichever step fails.
C5_NeverRaises == pc # "raised"

\* C6: every platform call ends by returning, and a browser that was
\* launched has been closed by then.
C6_SessionClosedOnEveryPath ==
    Terminal => Returned /\ (browser # "none" => browser = "closed")

\* C7: a platform string whose lower-cased form is none of the four names
\* returns an empty list; no browser is launched, nothing is navigated to.
C7_UnknownPlatformReturnsEmpty ==
    (Lower(platform) \notin {GITHUB, BEHANCE, STACKOVERFLOW, DEVTO} /\ pc # "start")
        => /\ Returned
           /\ result = <<>>
           /\ browser = "none" /\ closeCalls = 0
           /\ searched = "no" /\ navigated = <<>>

\* "github " with a trailing blank is not a platform: the call has returned
C7_Witness ==
    /\ platform = <<"g","i","t","h","u","b"," ">>
    /\ Returned

\* C8: with max_profiles = 0 no profile page is navigated to and the list
\* stays empty, on every pipeline and for any listing.
C8_ZeroMaxNavigatesNothing ==
    max_profiles = 0 =>
        navigated = <<>> /\ profiles = <<>> /\ result = <<>>

\* the listing was loaded and gave candidates, max_profiles is 0 and the
\* call returned
C8_Witness ==
    /\ max_profiles = 0
    /\ Returned
    /\ searched = "ok"
    /\ Counting(pipeline)
    /\ profile_urls # <<>>

\* once the loop is over, every candidate of its list was navigated to,
\* unless the success counter of Behance or Dev.to reached the cap
LoopRanToEnd ==
    pc # "loop" =>
        \/ navigated = cands
        \/ /\ Counting(pipeline)
           /\ IsPrefix(navigated, cands)
           /\ Len(profiles) >= max_profiles

\* an iteration that ends in the except branch leaves the loop running at
\* the next candidate and leaves the collected profiles alone
ItemFailureStep ==
    (pc = "loop" /\ failed' # failed) =>
        /\ pc' = "loop"
        /\ idx' = idx + 1
        /\ cands' = cands
        /\ profiles' = profiles

\* C9: a failure on one profile URL skips only that URL: the loop goes on,
\* every later candidate within the cap is navigated to, and the profiles
\* collected before stay in the list and in the result.
C9_FailureSkipsOnlyThatUrl ==
    /\ [][ItemFailureStep]_vars
    /\ [][IsPrefix(profiles, profiles')]_vars
    /\ [](LoopRanToEnd)
    /\ [](Returned => result = profiles)

\* a profile was collected, the next candidate failed, and the candidate
\* after it was still loaded and collected
C9_Witness ==
    /\ Returned
    /\ \E i \in 1..Len(navigated) :
          /\ i + 2 <= Len(navigated)
          /\ navigated[i] \in UrlsOf(result)
          /\ InList(navigated[i + 1], failed)
          /\ navigated[i + 2] \in UrlsOf(result)

\* C10: when the listing navigation fails, no profile page is navigated to,
\* and the call ends by returning an empty list with the browser closed.
C10_SearchFailureAborts ==
    searched = "failed" =>
        /\ navigated = <<>> /\ profiles = <<>>
        /\ Terminal => Returned /\ result = <<>> /\ browser = "closed"

\* the profileUrl values of a list of profiles, in the order of the list
UrlSeq(list) == [i \in 1..Len(list) |-> list[i].profileUrl]

\* min(a, b)
Min(a, b) == IF a <= b THEN a ELSE b

\* nothing failed: no iteration ended in its except branch and the outer
\* except clause was not entered
NoFailure ==
    /\ failed = <<>>
    /\ "item_error" \notin stderr
    /\ "scraper_error" \notin stderr

\* C11: when a call with max_profiles >= 0 returns without any failure and
\* every candidate it went to gave a named profile, the returned profiles
\* are exactly the first min(max_profiles, k) entries of profile_urls, in
\* that order, where profile_urls holds the k candidates of the listing
\* that are not in existing_urls, in discovery order.
C11_FirstCandidatesReturned ==
    (Returned /\ pipeline # "none" /\ max_profiles >= 0 /\ NoFailure
              /\ Len(profiles) = Len(navigated))
        => UrlSeq(result) =
               SubSeq(profile_urls, 1, Min(max_profiles, Len(profile_urls)))

\* the listing had three fresh candidates and a link to an existing URL;
\* with max_profiles = 2 the first two candidates were returned
C11_Witness ==
    /\ Returned /\ NoFailure
    /\ "existing" \in rejected
    /\ max_profiles = 2
    /\ Len(profile_urls) = 3
    /\ UrlSeq(result) = SubSeq(profile_urls, 1, 2)

\* the index of u in a list without repetition
Pos(xs, u) == CHOOSE i \in 1..Len(xs) : xs[i] = u

\* list keeps the order of urls: its profileUrl values occur in urls, at
\* increasing positions
KeepsOrder(list, urls) ==
    /\ \A i \in 1..Len(list) : InList(list[i].profileUrl, urls)
    /\ \A i, j \in 1..Len(list) :
          i < j => Pos(urls, list[i].profileUrl) < Pos(urls, list[j].profileUrl)

\* C12: the candidate list, the list of navigations and the list of
\* profiles only ever grow at their end, so a position in them is a time;
\* the profiles collected and the profiles returned follow the order in
\* which their URLs were discovered and the order in which they were
\* navigated to, and a profile once appended is never removed, moved or
\* changed.
C12_DiscoveryOrderAppendOnly ==
    /\ [][/\ IsPrefix(profile_urls, profile_urls')
          /\ IsPrefix(navigated, navigated')
          /\ IsPrefix(profiles, profiles')]_vars
    /\ [](KeepsOrder(profiles, profile_urls) /\ KeepsOrder(profiles, navigated))
    /\ [](Returned => /\ KeepsOrder(result, profile_urls)
                       /\ KeepsOrder(result, navigated))

\* two profiles were returned, and a candidate between or around them was
\* navigated to without giving a profile
C12_Witness ==
    /\ Returned
    /\ Len(result) >= 2
    /\ Len(navigated) > Len(result)

\* the tag a profile of the running pipeline has to carry
TagExpected(tag) ==
    /\ pipeline = "github" => tag = "GitHub"
    /\ pipeline = "behance" => tag = "Behance"
    /\ pipeline = "stackoverflow" => tag = "Stack Overflow"
    /\ pipeline = "devto" => tag = "Dev.to"
    /\ pipeline # "none"

\* C13: every profile of the list being built and of the returned list
\* has a source field, and it names the pipeline the dispatch selected:
\* GitHub, Behance, Stack Overflow or Dev.to.
C13_SourceTagOfPipeline ==
    /\ \A i \in 1..Len(profiles) :
          "source" \in DOMAIN profiles[i] /\ TagExpected(profiles[i].source)
    /\ \A i \in 1..Len(result) :
          "source" \in DOMAIN result[i] /\ TagExpected(result[i].source)

\* a Stack Overflow call returned a profile, tagged "Stack Overflow"
C13_Witness ==
    /\ Returned
    /\ pipeline = "stackoverflow"
    /\ result # <<>>
    /\ result[1].source = "Stack Overflow"

\* the invocation of the entry point is over: main printed the list, or
\* the exception that left scrape_profiles ended the process
ProcessOver == pc \in {"done", "raised"}

\* C14: nothing is written to stdout while the scrape runs (the messages
\* of every path go to stderr), and when the invocation is over stdout
\* holds exactly one write, the returned list.
C14_OneWriteToStdout ==
    /\ ~ProcessOver => stdout = <<>>
    /\ ProcessOver => stdout = <<result>>

\* the path segment of a GitHub candidate URL is on the denylist
Denylisted(url) ==
    Lower(SubSeq(url, Len(GithubHost) + 2, Len(url))) \in github_skip_paths

\* the markup scan is entered from the selector strategies exactly when
\* these left fewer than 3 candidates
FallbackTiming ==
    /\ [][(pipeline = "github" /\ pc = "discover" /\ pc' = "fallback")
              => Len(profile_urls) < 3]_vars
    /\ [][(pipeline = "github" /\ pc = "discover" /\ pc' = "loop")
              => Len(profile_urls) >= 3]_vars

\* C19 as stated: the scan runs exactly below 3 candidates, and no GitHub
\* candidate, whichever strategy found it, has a denylisted path segment.
C19_NoDenylistedCandidate ==
    /\ FallbackTiming
    /\ [](pipeline = "github"
            => \A i \in 1..Len(profile_urls) : ~Denylisted(profile_urls[i]))

\* C19, amended: the scan runs exactly when the selector strategies left
\* fewer than 3 candidates, and no URL the scan appends has a path segment
\* whose lower-cased form is on the denylist.
C19_ScanFiltersDenylist ==
    /\ FallbackTiming
    /\ [][(pc = "fallback" /\ profile_urls' # profile_urls)
              => ~Denylisted(profile_urls'[Len(profile_urls')])]_vars

\* the selectors left "/about" as their only candidate, the scan ran over
\* both of its matches and added "/dx"
C19_Witness ==
    /\ pc = "fallback" /\ matchesLeft = 0
    /\ profile_urls = <<GithubFullUrl(<<"/","a","b","o","u","t">>),
                        GithubFullUrl(<<"/","d","x">>)>>

\* C21: in a call with max_profiles >= 0, the number of profile pages
\* navigated to never exceeds max_profiles, on every platform and whatever
\* fails or extracts without a name.
C21_NavigationsWithinCap ==
    max_profiles >= 0 => Len(navigated) <= max_profiles

\* C22: when a call in which the browser was launched is over,
\* browser.close() has been invoked exactly once.
C22_ClosedExactlyOnce ==
    (Terminal /\ created.browser > 0) => closeCalls = 1

\* the stage of the call: 0 not started, 1 opening the session, 2 session
\* open, 3 listing loaded, 4 the loop over the profile pages, 5 closing,
\* 6 over
Phase(at) ==
    IF at = "start" THEN 0
    ELSE IF at \in {"launch", "context", "page"} THEN 1
    ELSE IF at = "search" THEN 2
    ELSE IF at \in {"scroll", "discover", "fallback"} THEN 3
    ELSE IF at = "loop" THEN 4
    ELSE IF at \in {"close", "except"} THEN 5
    ELSE 6

\* one browser, one context and one page have been created
OneOfEach == created = [browser |-> 1, context |-> 1, page |-> 1]

\* C23: a call never goes back to an earlier stage; the listing is
\* navigated to only once browser, context and page exist and before any
\* profile page; a profile page is navigated to only after the listing has
\* loaded, with the browser open; a profile is appended only in the step
\* that navigated to its URL, and not when that navigation failed; and
\* once browser.close() has been invoked nothing is navigated to, scrolled
\* or read from the page.
C23_EventOrder ==
    /\ [][Phase(pc') >= Phase(pc)]_vars
    /\ [][searched' # searched
            => OneOfEach /\ browser = "open" /\ navigated = <<>>]_vars
    /\ [][navigated' # navigated
            => /\ searched = "ok" /\ browser = "open" /\ closeCalls = 0
               /\ OneOfEach
               /\ Len(navigated') = Len(navigated) + 1]_vars
    /\ [][profiles' # profiles
            => /\ Len(profiles') = Len(profiles) + 1
               /\ Len(navigated') = Len(navigated) + 1
               /\ profiles'[Len(profiles')].profileUrl
                     = navigated'[Len(navigated')]
               /\ failed' = failed]_vars
    /\ [][closeCalls > 0
            => UNCHANGED <<searched, scrolls, sel, linksLeft, matchesLeft,
                           profile_urls, navigated, profiles>>]_vars

\* a call went through every stage: the listing loaded, one profile page
\* failed to load, another was extracted, and the browser was closed
C23_Witness ==
    /\ Returned /\ browser = "closed" /\ searched = "ok"
    /\ failed # <<>>
    /\ result # <<>>
    /\ Len(navigated) = Len(failed) + Len(result)

\* C24 as stated: every call, when it is over, has opened exactly one
\* browser, one context and one page.
C24_ExactlyOneOfEach ==
    Terminal => OneOfEach

\* C24, amended: no call creates more than one browser, one context or
\* one page, a context is created only in a launched browser and a page
\* only in a created context, and whenever the listing or a profile page
\* has been navigated to or scrolled, exactly one of each exists.
C24_AtMostOneOfEach ==
    /\ created.browser <= 1 /\ created.context <= 1 /\ created.page <= 1
    /\ created.page <= created.context
    /\ created.context <= created.browser
    /\ created.browser = 1 <=> browser # "none"
    /\ (searched # "no" \/ scrolls > 0 \/ navigated # <<>>) => OneOfEach

\* a call navigated to the listing and to two profile pages, all in the
\* one page it created
C24_Witness ==
    /\ Returned
    /\ OneOfEach
    /\ Len(navigated) >= 2

\* s is name up to the case of its letters
Spells(s, name) ==
    /\ Len(s) = Len(name)
    /\ \A i \in 1..Len(s) :
          \E k \in 1..26 : /\ name[i] = LowerCase[k]
                           /\ s[i] \in {LowerCase[k], UpperCase[k]}

\* C27: for a platform string that spells github, behance, stackoverflow
\* or devto in any letter case, the dispatch selects that pipeline, the
\* selection is made once and never changes, no "unknown platform" message
\* is printed, every profile carries the tag of that pipeline, and the list
\* the pipeline returns is the list the call returns.
C27_CaseInsensitiveDispatch ==
    /\ [](pc # "start" =>
            /\ Spells(platform, GITHUB) => pipeline = "github"
            /\ Spells(platform, BEHANCE) => pipeline = "behance"
            /\ Spells(platform, STACKOVERFLOW) => pipeline = "stackoverflow"
            /\ Spells(platform, DEVTO) => pipeline = "devto")
    /\ [][pipeline' # pipeline => pc = "start"]_vars
    /\ [](pipeline # "none" =>
            /\ "unknown" \notin stderr
            /\ \A i \in 1..Len(profiles) : TagExpected(profiles[i].source)
            /\ Returned => result = profiles)

\* "DevTo" ran the Dev.to pipeline and returned a profile
C27_Witness ==
    /\ platform = <<"D","e","v","T","o">>
    /\ Returned
    /\ pipeline = "devto"
    /\ result # <<>>
    /\ result[1].source = "Dev.to"

\* C29: on Behance and Dev.to, when a call with max_profiles >= 0 returns
\* without a session-level failure: the result has at most max_profiles
\* profiles; if it has fewer, every candidate was navigated to (a
\* candidate that failed, was no profile page or had no name did not use
\* up the cap); and if it has max_profiles, the last page navigated to is
\* the one of the last profile (the loop stopped as soon as the cap was
\* reached).
C29_CapCountsSuccesses ==
    (Returned /\ pipeline \in {"behance", "devto"} /\ max_profiles >= 0
              /\ "scraper_error" \notin stderr)
        => /\ Len(result) <= max_profiles
           /\ Len(result) < max_profiles => navigated = profile_urls
           /\ Len(result) = max_profiles =>
                 IF max_profiles = 0 THEN navigated = <<>>
                 ELSE navigated[Len(navigated)]
                         = result[Len(result)].profileUrl
           /\ scraped = Len(result)

\* with max_profiles = 2 and three candidates, the first candidate gave no
\* profile and the next two were returned
C29_Witness ==
    /\ Returned /\ pipeline \in {"behance", "devto"}
    /\ "scraper_error" \notin stderr
    /\ max_profiles = 2
    /\ Len(navigated) = 3
    /\ UrlSeq(result) = SubSeq(profile_urls, 2, 3)

\* the indices of the operations of a kind in awaited
Ops(op) == {i \in 1..Len(awaited) : awaited[i].op = op}

\* C25: every profile-page navigation, failed ones included, comes
\* directly after a delay, so that no two navigations follow each other
\* without one; that delay lies between 1.5 and 2.5 seconds on GitHub,
\* Stack Overflow and Dev.to and between 2 and 3 seconds on Behance; every
\* key press of the scrolling is directly followed by a delay; and on
\* Behance and Dev.to the 3 key presses are done before the first profile
\* page is navigated to.
C25_ThrottledNavigation ==
    /\ \A i \in Ops("goto_profile") :
          /\ i > 1
          /\ awaited[i - 1].op = "sleep"
          /\ IF pipeline = "behance"
             THEN awaited[i - 1].secs >= 20 /\ awaited[i - 1].secs <= 30
             ELSE awaited[i - 1].secs >= 15 /\ awaited[i - 1].secs <= 25
    /\ \A i \in Ops("press") :
          i < Len(awaited)
              => awaited[i + 1].op = "sleep" /\ awaited[i + 1].secs > 0
    /\ (pipeline \in {"behance", "devto"} /\ Ops("goto_profile") # {})
          => /\ Cardinality(Ops("press")) = 3
             /\ \A i \in Ops("press") : \A j \in Ops("goto_profile") : i < j
    /\ pipeline \in {"github", "stackoverflow"} => Ops("press") = {}
    /\ Cardinality(Ops("goto_profile")) = Len(navigated)

\* a Behance call scrolled three times and navigated to two profile pages,
\* after a delay of 2 seconds the first time and of 3 seconds the second
C25_Witness ==
    /\ pipeline = "behance" /\ Returned
    /\ Cardinality(Ops("press")) = 3
    /\ \E i, j \in Ops("goto_profile") :
          /\ i < j
          /\ awaited[i - 1] = Slept(20)
          /\ awaited[j - 1] = Slept(30)

(***************************************************************************)
(* Two platform calls of one process, interleaved at their awaits          *)
(***************************************************************************)
\* largest number of links of the listing that is explored
MaxListing == 2

\* the calls that run concurrently
Calls == {1, 2}

\* pipelines of the calls: one that slices the list, one that counts
CallPipelines == {"github", "devto"}

\* the user agents of the module-level list
AgentPool == {"Chrome/Windows", "Chrome/Macintosh", "Firefox/Windows"}

\* href values that the GitHub and the Dev.to discovery both accept
ListingHrefs == { <<"/","a","m","y">>, <<"/","b","o","b">> }

FullUrl(pl, href) ==
    IF pl = "github" THEN GithubFullUrl(href) ELSE DevtoFullUrl(href)

\* the listings, the profile pages (a page gives a named record, a record
\* without a name, or fails to load) and the list given as existing_urls
Webs ==
    [links : UNION {[1..n -> ListingHrefs] : n \in 0..MaxListing},
     page : [ListingHrefs -> {"named", "nameless", "fails"}],
     existing : SUBSET {GithubFullUrl(<<"/","a","m","y">>),
                        DevtoFullUrl(<<"/","a","m","y">>)}]

\* the href of a candidate URL of a pipeline
HrefOf(pl, url) == CHOOSE h \in ListingHrefs : FullUrl(pl, h) = url

\* the record the extractor returns for the page of url
PageRecord(pl, url) ==
    [profileUrl |-> url,
     fullName |-> IF web.page[HrefOf(pl, url)] = "named"
                  THEN <<"A","l">> ELSE <<>>]

\* the local variables of a call that has not started
NewCall(pl, cap) ==
    [pl |-> pl, cap |-> cap, at |-> "start", next |-> 1, urls |-> <<>>,
     todo |-> <<>>, idx |-> 1, scraped |-> 0, profiles |-> <<>>,
     result |-> <<>>]

notConcurrent == <<scraperVars, pdfVars, resumeVars, extractorVars, stdout, stderr>>

\* launch, new_context(user_agent=random.choice(USER_AGENTS)), new_page and
\* the listing navigation
OpenSession(c) ==
    /\ calls[c].at = "start"
    /\ \E user_agent \in USER_AGENTS :
          calls' = [calls EXCEPT ![c].at = "discover"]
    /\ UNCHANGED <<shared_existing, USER_AGENTS, web, notConcurrent>>

\* a link read whose URL is remembered in the list given as existing_urls
ReadListingLinkRemembering(c) ==
    /\ calls[c].at = "discover"
    /\ calls[c].next <= Len(web.links)
    /\ LET full_url == FullUrl(calls[c].pl, web.links[calls[c].next])
       IN  /\ calls' = [calls EXCEPT
                 ![c].urls = AppendIf(TRUE, @, full_url, shared_existing),
                 ![c].next = @ + 1]
           /\ shared_existing' = shared_existing \cup {full_url}
    /\ UNCHANGED <<USER_AGENTS, web, notConcurrent>>

\* href = await link.get_attribute('href'), then the guarded
\* profile_urls.append(full_url)
ReadListingLink(c) ==
    /\ calls[c].at = "discover"
    /\ calls[c].next <= Len(web.links)
    /\ LET full_url == FullUrl(calls[c].pl, web.links[calls[c].next])
       IN  calls' = [calls EXCEPT
              ![c].urls = AppendIf(TRUE, @, full_url, shared_existing),
              ![c].next = @ + 1]
    /\ UNCHANGED <<shared_existing, USER_AGENTS, web, notConcurrent>>

\* the links are read: the loop over the candidates starts
StartCallLoop(c) ==
    /\ calls[c].at = "discover"
    /\ calls[c].next > Len(web.links)
    /\ calls' = [calls EXCEPT
          ![c].at = "loop",
          ![c].todo = LoopList(calls[c].pl, calls[c].urls, calls[c].cap)]
    /\ UNCHANGED <<shared_existing, USER_AGENTS, web, notConcurrent>>

\* the loop of a call has a next candidate to go to
CallHasNext(call) ==
    /\ call.idx <= Len(call.todo)
    /\ Counting(call.pl) => ~CapReached(call.scraped, call.cap)

\* the local variables of a call after one iteration of its loop: the
\* navigation fails, or the record is extracted and, if named, collected
AfterVisit(call) ==
    LET url == call.todo[call.idx]
        profile == PageRecord(call.pl, url)
    IN  IF web.page[HrefOf(call.pl, url)] = "fails"
        THEN [call EXCEPT !.idx = @ + 1]
        ELSE [call EXCEPT
                 !.idx = @ + 1,
                 !.profiles = Collect(@, profile, call.pl),
                 !.scraped = IF Counting(call.pl) /\ Truthy(profile.fullName)
                             THEN @ + 1 ELSE @]

\* one iteration: sleep, page.goto(profile_url), sleep, extract, append
VisitProfile(c) ==
    /\ calls[c].at = "loop"
    /\ CallHasNext(calls[c])
    /\ calls' = [calls EXCEPT ![c] = AfterVisit(calls[c])]
    /\ UNCHANGED <<shared_existing, USER_AGENTS, web, notConcurrent>>

\* await browser.close(); return profiles
ReturnProfiles(c) ==
    /\ calls[c].at = "loop"
    /\ ~CallHasNext(calls[c])
    /\ calls' = [calls EXCEPT ![c].at = "returned",
                              ![c].result = calls[c].profiles]
    /\ UNCHANGED <<shared_existing, USER_AGENTS, web, notConcurrent>>

InitConcurrent ==
    /\ ScraperIdle /\ PdfIdle /\ ResumeIdle /\ ExtractorIdle
    /\ stdout = <<>>
    /\ stderr = {}
    /\ web \in Webs
    /\ shared_existing = web.existing
    /\ USER_AGENTS = AgentPool
    /\ calls \in [Calls -> {NewCall(pl, cap) :
                              pl \in CallPipelines, cap \in 1..MaxCap}]

NextConcurrent ==
    \E c \in Calls :
        \/ OpenSession(c) \/ ReadListingLink(c) \/ StartCallLoop(c)
        \/ VisitProfile(c) \/ ReturnProfiles(c)

SpecConcurrent == InitConcurrent /\ [][NextConcurrent]_vars

\* the candidates a call finds when it reads the links on its own
RECURSIVE CandidatesAlone(_, _, _, _)
CandidatesAlone(links, urls, pl, existing) ==
    IF links = <<>> THEN urls
    ELSE CandidatesAlone(Tail(links),
                         AppendIf(TRUE, urls, FullUrl(pl, Head(links)), existing),
                         pl, existing)

\* the local variables of a call whose loop ran to its end on its own
RECURSIVE LoopAlone(_)
LoopAlone(call) ==
    IF CallHasNext(call) THEN LoopAlone(AfterVisit(call)) ELSE call

\* the list a call returns when no other call runs
ResultAlone(pl, cap) ==
    LoopAlone([NewCall(pl, cap) EXCEPT
                  !.todo = LoopList(pl,
                               CandidatesAlone(web.links, <<>>, pl, web.existing),
                               cap)]).profiles

MaxPages == 3

\* what page.extract_text(extraction_mode="layout") does on one page: it
\* returns a string, or it raises
PageText(t) == [kind |-> "text", text |-> t]
PageRaises == [kind |-> "raise", text |-> <<>>]
PageOutcomes ==
    {PageText(t) : t \in {<<>>, <<" ">>, <<"a">>, <<"b", "\n">>}}
        \cup {PageRaises}

\* what is behind pdf_path: no file, a file open() cannot read, a file
\* PdfReader cannot parse, or a document with its pages
Document(k, ps) == [kind |-> k, pages |-> ps]
Documents ==
    {Document(k, <<>>) : k \in {"missing", "unreadable", "corrupt"}}
        \cup {Document("pdf", ps) :
                 ps \in UNION {[1..n -> PageOutcomes] : n \in 0..MaxPages}}

\* a page text appended without the blank line after it
AddPageBare(acc, text) == IF Truthy(text) THEN acc \o text ELSE acc

\* if text: extracted_text += text + "\n\n"
AddPage(acc, text) ==
    IF Truthy(text) THEN acc \o text \o <<"\n", "\n">> ELSE acc

\* an except clause of the function: the message goes to stderr, then
\* sys.exit(1)
PdfFail(message) ==
    /\ stderr' = stderr \cup {message}
    /\ exit_status' = 1
    /\ pdf_pc' = "exited"
    /\ UNCHANGED <<pdf_file, page_num, extracted_text, stdout>>

\* with open(pdf_path, 'rb') as file: pdf_reader = PdfReader(file)
OpenPdf ==
    /\ pdf_pc = "open"
    /\ IF pdf_file.kind = "missing" THEN PdfFail("not_found")
       ELSE IF pdf_file.kind \in {"unreadable", "corrupt"} THEN PdfFail("error")
       ELSE /\ pdf_pc' = "count"
            /\ UNCHANGED <<pdf_file, page_num, extracted_text, exit_status,
                           stdout, stderr>>
    /\ UNCHANGED <<scraperVars, concurrentVars, resumeVars, extractorVars>>

\* num_pages = len(pdf_reader.pages); if num_pages == 0: print, exit(1).
\* SystemExit is no Exception: the except clauses let it pass
CountPages ==
    /\ pdf_pc = "count"
    /\ IF Len(pdf_file.pages) = 0 THEN PdfFail("no_pages")
       ELSE /\ pdf_pc' = "pages"
            /\ page_num' = 1
            /\ extracted_text' = <<>>
            /\ UNCHANGED <<pdf_file, exit_status, stdout, stderr>>
    /\ UNCHANGED <<scraperVars, concurrentVars, resumeVars, extractorVars>>

\* one iteration of  for page_num in range(num_pages)
ReadPage ==
    /\ pdf_pc = "pages" /\ page_num <= Len(pdf_file.pages)
    /\ IF pdf_file.pages[page_num].kind = "raise" THEN PdfFail("error")
       ELSE /\ extracted_text' =
                   AddPage(extracted_text, pdf_file.pages[page_num].text)
            /\ page_num' = page_num + 1
            /\ UNCHANGED <<pdf_file, pdf_pc, exit_status, stdout, stderr>>
    /\ UNCHANGED <<scraperVars, concurrentVars, resumeVars, extractorVars>>

\* if not extracted_text.strip(): print, exit(1);
\* print(extracted_text, end='')
WriteText ==
    /\ pdf_pc = "pages" /\ page_num > Len(pdf_file.pages)
    /\ IF ~Truthy(Strip(extracted_text)) THEN PdfFail("no_text")
       ELSE /\ stdout' = Append(stdout, extracted_text)
            /\ exit_status' = 0
            /\ pdf_pc' = "exited"
            /\ UNCHANGED <<pdf_file, page_num, extracted_text, stderr>>
    /\ UNCHANGED <<scraperVars, concurrentVars, resumeVars, extractorVars>>

InitPdf ==
    /\ ScraperIdle /\ ConcurrentIdle /\ ResumeIdle /\ ExtractorIdle
    /\ stdout = <<>>
    /\ stderr = {}
    /\ pdf_file \in Documents
    /\ pdf_pc = "open"
    /\ page_num = 1
    /\ extracted_text = <<>>
    /\ exit_status = -1

NextPdf == OpenPdf \/ CountPages \/ ReadPage \/ WriteText

SpecPdf == InitPdf /\ [][NextPdf]_vars

\* the texts of the pages in page order, each non-empty one followed by a
\* blank line
RECURSIVE PagesText(_)
PagesText(ps) ==
    IF ps = <<>> THEN <<>>
    ELSE IF Head(ps).text = <<>> THEN PagesText(Tail(ps))
    ELSE Head(ps).text \o <<"\n", "\n">> \o PagesText(Tail(ps))

\* the failure, if any, the document has to end in
FailureOf(doc) ==
    IF doc.kind = "missing" THEN "not_found"
    ELSE IF doc.kind # "pdf" THEN "error"
    ELSE IF doc.pages = <<>> THEN "no_pages"
    ELSE IF \E i \in 1..Len(doc.pages) : doc.pages[i].kind = "raise" THEN "error"
    ELSE IF \A i \in 1..Len(doc.pages) : Strip(doc.pages[i].text) = <<>>
         THEN "no_text"
    ELSE "none"

\* C15: nothing is written to stdout before the function is over; then
\* either the document is readable, has pages and some text, stdout holds
\* one write, the page texts in page order with a blank line after each
\* non-empty one, and the status is 0; or the file is missing, has no
\* pages, has no text or an exception was raised, stdout is empty, stderr
\* holds the error of that case and the status is 1.
C15_TextOrTypedFailure ==
    /\ pdf_pc # "exited" => stdout = <<>> /\ exit_status = -1
    /\ (pdf_pc = "exited" /\ FailureOf(pdf_file) = "none")
          => /\ stdout = <<PagesText(pdf_file.pages)>>
             /\ exit_status = 0
    /\ (pdf_pc = "exited" /\ FailureOf(pdf_file) # "none")
          => /\ stdout = <<>>
             /\ stderr = {FailureOf(pdf_file)}
             /\ exit_status = 1

\* a document of three pages, the second without text, was written out
C15_Witness ==
    /\ pdf_pc = "exited"
    /\ Len(pdf_file.pages) = 3
    /\ pdf_file.pages[2] = PageText(<<>>)
    /\ stdout = <<<<"a", "\n", "\n", "b", "\n", "\n", "\n">>>>

\* a document whose only text is blank ended in the "no text" failure
NoTextFailureReached ==
    /\ pdf_pc = "exited"
    /\ pdf_file = Document("pdf", <<PageText(<<" ">>), PageText(<<>>)>>)
    /\ stderr = {"no_text"} /\ exit_status = 1 /\ stdout = <<>>

(***************************************************************************)
(* server/utils/parse_resume_full.py: parse_resume, extract_name and       *)
(* extract_skills                                                          *)
(***************************************************************************)
\* largest number of lines of a resume text that is explored
MaxLines == 2
\* number of runs of the parser on one text
MaxRuns == 2

\* the keyword list, in its order
SKILL_KEYWORDS ==
    << <<"p","y","t","h","o","n">>,
       <<"j","a","v","a">>,
       <<"j","a","v","a","s","c","r","i","p","t">>,
       <<"t","y","p","e","s","c","r","i","p","t">>,
       <<"c","+","+">>,
       <<"c","#">>,
       <<"c">>,
       <<"r","u","b","y">>,
       <<"g","o">>,
       <<"r","u","s","t">>,
       <<"k","o","t","l","i","n">>,
       <<"s","w","i","f","t">>,
       <<"p","h","p">>,
       <<"s","c","a","l","a">>,
       <<"p","e","r","l">>,
       <<"r">>,
       <<"h","t","m","l">>,
       <<"c","s","s">>,
       <<"r","e","a","c","t">>,
       <<"a","n","g","u","l","a","r">>,
       <<"v","u","e">>,
       <<"n","o","d","e">>,
       <<"e","x","p","r","e","s","s">>,
       <<"d","j","a","n","g","o">>,
       <<"f","l","a","s","k">>,
       <<"s","p","r","i","n","g">>,
       <<"n","e","x","t","j","s">>,
       <<"n","e","s","t","j","s">>,
       <<"m","a","c","h","i","n","e"," ","l","e","a","r","n","i","n","g">>,
       <<"d","e","e","p"," ","l","e","a","r","n","i","n","g">>,
       <<"t","e","n","s","o","r","f","l","o","w">>,
       <<"p","y","t","o","r","c","h">>,
       <<"k","e","r","a","s">>,
       <<"s","c","i","k","i","t","-","l","e","a","r","n">>,
       <<"p","a","n","d","a","s">>,
       <<"n","u","m","p","y">>,
       <<"m","a","t","p","l","o","t","l","i","b">>,
       <<"s","e","a","b","o","r","n">>,
       <<"n","l","p">>,
       <<"c","o","m","p","u","t","e","r"," ","v","i","s","i","o","n">>,
       <<"n","e","u","r","a","l"," ","n","e","t","w","o","r","k","s">>,
       <<"c","n","n">>,
       <<"r","n","n">>,
       <<"l","s","t","m">>,
       <<"t","r","a","n","s","f","o","r","m","e","r">>,
       <<"s","q","l">>,
       <<"m","y","s","q","l">>,
       <<"p","o","s","t","g","r","e","s","q","l">>,
       <<"m","o","n","g","o","d","b">>,
       <<"r","e","d","i","s">>,
       <<"e","l","a","s","t","i","c","s","e","a","r","c","h">>,
       <<"c","a","s","s","a","n","d","r","a">>,
       <<"d","y","n","a","m","o","d","b">>,
       <<"f","i","r","e","b","a","s","e">>,
       <<"a","w","s">>,
       <<"a","z","u","r","e">>,
       <<"g","c","p">>,
       <<"d","o","c","k","e","r">>,
       <<"k","u","b","e","r","n","e","t","e","s">>,
       <<"j","e","n","k","i","n","s">>,
       <<"t","e","r","r","a","f","o","r","m">>,
       <<"a","n","s","i","b","l","e">>,
       <<"l","i","n","u","x">>,
       <<"g","i","t">>,
       <<"g","i","t","h","u","b">>,
       <<"g","i","t","l","a","b">>,
       <<"c","i","/","c","d">>,
       <<"m","i","c","r","o","s","e","r","v","i","c","e","s">>,
       <<"r","e","s","t"," ","a","p","i">>,
       <<"g","r","a","p","h","q","l">>,
       <<"p","o","w","e","r"," ","b","i">>,
       <<"t","a","b","l","e","a","u">>,
       <<"e","x","c","e","l">>,
       <<"j","u","p","y","t","e","r">>,
       <<"v","s"," ","c","o","d","e">>,
       <<"b","e","a","u","t","i","f","u","l","s","o","u","p">>,
       <<"s","e","l","e","n","i","u","m">>,
       <<"d","a","t","a"," ","s","c","i","e","n","c","e">>,
       <<"d","a","t","a"," ","a","n","a","l","y","t","i","c","s">>,
       <<"d","a","t","a"," ","e","n","g","i","n","e","e","r","i","n","g">>,
       <<"e","t","l">>,
       <<"d","a","t","a"," ","v","i","s","u","a","l","i","z","a","t","i","o","n">>,
       <<"s","t","a","t","i","s","t","i","c","s">>,
       <<"a","g","i","l","e">>,
       <<"s","c","r","u","m">>,
       <<"j","i","r","a">>,
       <<"f","i","g","m","a">>,
       <<"p","h","o","t","o","s","h","o","p">> >>

\* a character of the class \\w
IsWord(c) ==
    \/ \E i \in 1..26 : c = UpperCase[i] \/ c = LowerCase[i]
    \/ c \in Digits \/ c = "_"

\* \\b between position i and position i + 1 of s (0 <= i <= Len(s))
WordBoundary(s, i) ==
    (i >= 1 /\ IsWord(s[i])) # (i < Len(s) /\ IsWord(s[i + 1]))

\* re.search(r'\\b' + re.escape(skill) + r'\\b', s)
SearchWord(skill, s) ==
    \E i \in 1..(Len(s) - Len(skill) + 1) :
        /\ SubSeq(s, i, i + Len(skill) - 1) = skill
        /\ WordBoundary(s, i - 1)
        /\ WordBoundary(s, i + Len(skill) - 1)

\* found_skills: the keywords met in text.lower(), in keyword order
FoundSkills(text) ==
    SelectSeq(SKILL_KEYWORDS, LAMBDA skill : SearchWord(skill, Lower(text)))

\* list(set(xs)): the elements of xs without repetition, in the iteration
\* order of the set, which follows the string hashes of the process
ListOfSet(xs) ==
    LET S == {xs[i] : i \in 1..Len(xs)}
    IN  {l \in [1..Cardinality(S) -> S] :
            \A i, j \in 1..Cardinality(S) : i # j => l[i] # l[j]}

\* extract_skills(text): the lists it can return
extract_skills(text) == ListOfSet(FoundSkills(text))

\* text.split('\n')
RECURSIVE SplitLines(_)
SplitLines(s) ==
    IF \E i \in 1..Len(s) : s[i] = "\n"
    THEN <<SplitFirst(s, "\n")>>
             \o SplitLines(SubSeq(s, Len(SplitFirst(s, "\n")) + 2, Len(s)))
    ELSE <<s>>

\* [l.strip() for l in text.split('\n') if l.strip()]
StrippedLines(text) ==
    LET ls == SplitLines(text)
    IN  SelectSeq([i \in 1..Len(ls) |-> Strip(ls[i])], LAMBDA l : Truthy(l))

\* the length a first line has to stay under to be taken as a name
NameLength == 50

\* re.match(r"^[A-Za-z\\s.'-]+$", line)
LooksLikeName(line) ==
    /\ line # <<>>
    /\ \A i \in 1..Len(line) :
          \/ \E k \in 1..26 : line[i] = UpperCase[k] \/ line[i] = LowerCase[k]
          \/ line[i] \in WhiteSpace \cup {".", "'", "-"}

\* extract_name(text); None is the empty sequence
extract_name(text) ==
    LET lines == StrippedLines(text)
    IN  IF lines # <<>> /\ Len(lines[1]) < NameLength /\ LooksLikeName(lines[1])
        THEN lines[1] ELSE <<>>

\* what extract_text_from_pdf(pdf_path) of this module does: it returns
\* the text, or it raises
TextRead(t) == [kind |-> "text", text |-> t]
ReadRaises == [kind |-> "raise", text |-> <<>>]

\* lines a resume may hold
ResumeLines ==
    { <<"A","l">>, <<"G","o"," ","j","a","v","a">>, <<"C">>,
      <<"g","o","p","h","e","r">>, <<"c","+","+">> }

\* the lines joined, each followed by a newline
RECURSIVE JoinLines(_)
JoinLines(ls) ==
    IF ls = <<>> THEN <<>> ELSE Head(ls) \o <<"\n">> \o JoinLines(Tail(ls))

ResumeReads ==
    {TextRead(JoinLines(ls)) :
        ls \in UNION {[1..n -> ResumeLines] : n \in 0..MaxLines}}
        \cup {ReadRaises}

\* the records parse_resume can return (name, technicalSkills, rawText
\* and parsed of the record), or the record of its except clause
ResumeRecords(read) ==
    IF read.kind = "raise"
    THEN {[error |-> "raise", parsed |-> FALSE,
           technicalSkills |-> <<>>, rawText |-> <<>>]}
    ELSE {[name |-> extract_name(read.text),
           technicalSkills |-> skills,
           rawText |-> read.text,
           parsed |-> TRUE] : skills \in extract_skills(read.text)}

\* one run of parse_resume on the text
parse_resume ==
    /\ Len(records) < MaxRuns
    /\ \E resume_data \in ResumeRecords(resume_text) :
          records' = Append(records, resume_data)
    /\ UNCHANGED <<resume_text, scraperVars, concurrentVars, pdfVars, extractorVars, stdout,
                   stderr>>

InitResume ==
    /\ ScraperIdle /\ ConcurrentIdle /\ PdfIdle /\ ExtractorIdle
    /\ stdout = <<>>
    /\ stderr = {}
    /\ resume_text \in ResumeReads
    /\ records = <<>>

NextResume == parse_resume

SpecResume == InitResume /\ [][NextResume]_vars

\* C16: the runs of the parser on one text return the identical record,
\* list fields in the same order included.
C16_SameRecordEveryRun ==
    \A i, j \in 1..Len(records) : records[i] = records[j]

(***************************************************************************)
(* The four extractors, applied to one profile page                        *)
(***************************************************************************)
\* largest number of skill elements of a page that is explored
MaxSkillEls == 3

\* text[:500] of the bio
BioCap == 500
\* Behance: len(text) > 10 and len(text) < 500
BehanceBioMin == 10
BehanceBioLimit == 500
\* Dev.to: len(text) > 5
DevtoBioMin == 5
\* Behance: len(skill) < 50
SkillLimit == 50
\* skill_els[:10] and tag_els[:15]
BehanceSkillCap == 10
StackOverflowSkillCap == 15

\* a text of n characters
TextOfLength(n) == [i \in 1..n |-> "y"]

\* inner_text() values of the bio elements: 0, 2, 6, 12, 499 and 501
\* characters
BioTexts ==
    { <<>>, <<"h","i">>, <<"h","e","l","l","o","!">>,
      <<" ","h","e","l","l","o"," ","w","o","r","l","d","!"," ">>,
      TextOfLength(BehanceBioLimit - 1), TextOfLength(BioCap + 1) }
BioOutcomes == {NoElement, Raises} \cup {Element(t) : t \in BioTexts}

\* inner_text() values of the location and company elements
PlaceTexts == { <<>>, <<" ">>, <<"P","u","n","e"," ">> }
PlaceOutcomes == {NoElement, Raises} \cup {Element(t) : t \in PlaceTexts}

\* inner_text() of one skill element: a text, or an exception
SkillTexts ==
    { <<"G","o">>, <<" ","G","o","\n">>, <<"U","X">>, <<" "," ">>,
      TextOfLength(SkillLimit) }
SkillOutcomes == {Raises} \cup {Element(t) : t \in SkillTexts}

\* query_selector_all of the skill elements: it raises, or it returns the
\* elements in page order
QueryRaises == [kind |-> "raise", els |-> <<>>]
Elements(els) == [kind |-> "list", els |-> els]

\* a page with one more distinct skill than the largest cap
ManySkills ==
    [i \in 1..(StackOverflowSkillCap + 1) |-> Element(<<"k", LowerCase[i]>>)]

SkillQueries ==
    {QueryRaises, Elements(ManySkills)}
        \cup {Elements(els) :
                 els \in UNION {[1..n -> SkillOutcomes] : n \in 0..MaxSkillEls}}

\* the elements read before inner_text() raises and ends the loop
BeforeRaise(els) ==
    IF \E i \in 1..Len(els) : els[i].kind = "raise"
    THEN SubSeq(els, 1, (CHOOSE i \in 1..Len(els) :
                            /\ els[i].kind = "raise"
                            /\ \A j \in 1..(i - 1) : els[j].kind # "raise") - 1)
    ELSE els

\* (await el.inner_text()).strip() of each element
StrippedTexts(els) == [i \in 1..Len(els) |-> Strip(els[i].text)]

\* if skill and skill not in seen: append; seen.add
RECURSIVE Unseen(_, _)
Unseen(xs, acc) ==
    IF xs = <<>> THEN acc
    ELSE IF Truthy(Head(xs)) /\ ~InList(Head(xs), acc)
         THEN Unseen(Tail(xs), Append(acc, Head(xs)))
         ELSE Unseen(Tail(xs), acc)

\* GitHub: every element, without repetition
GithubSkills(query) ==
    IF query.kind = "raise" THEN <<>>
    ELSE Unseen(StrippedTexts(BeforeRaise(query.els)), <<>>)

\* Behance: the first 10 elements; if skill and len(skill) < 50: append
BehanceSkills(query) ==
    IF query.kind = "raise" THEN <<>>
    ELSE SelectSeq(StrippedTexts(BeforeRaise(SlicePrefix(query.els,
                                                         BehanceSkillCap))),
                   LAMBDA skill : Truthy(skill) /\ Len(skill) < SkillLimit)

\* Stack Overflow: the first 15 elements, without repetition
StackOverflowSkills(query) ==
    IF query.kind = "raise" THEN <<>>
    ELSE Unseen(StrippedTexts(BeforeRaise(SlicePrefix(query.els,
                                                      StackOverflowSkillCap))),
                <<>>)

\* the strategies whose element exists and whose stripped text is not empty
NonEmpty(outs) == {i \in Found(outs) : Truthy(Strip(outs[i].text))}

\* a field with one selector: if el: field = (await el.inner_text()).strip()
SingleValue(out) == ChainValue(<<out>>, Found(<<out>>))

\* a bio stored as read, without the slice
GithubBioUncut(chain) == ChainValue(chain, NonEmpty(chain))

\* if text: profile['bio'] = text[:500]
GithubBio(chain) == SlicePrefix(ChainValue(chain, NonEmpty(chain)), BioCap)
GithubLocation(chain) == ChainValue(chain, NonEmpty(chain))

BehanceBio(chain) ==
    ChainValue(chain, {i \in NonEmpty(chain) :
                          /\ Len(Strip(chain[i].text)) > BehanceBioMin
                          /\ Len(Strip(chain[i].text)) < BehanceBioLimit})
\* if loc_el: profile['location'] = (await loc_el.inner_text()).strip(); break
BehanceLocation(chain) == ChainValue(chain, Found(chain))

StackOverflowBio(chain) == SlicePrefix(SingleValue(chain[1]), BioCap)

DevtoBio(chain) ==
    SlicePrefix(ChainValue(chain, {i \in NonEmpty(chain) :
                                      Len(Strip(chain[i].text)) > DevtoBioMin}),
                BioCap)

\* the dictionary every extractor starts from
Defaults(profile_url) ==
    [fullName |-> <<>>, email |-> <<>>, bio |-> <<>>, location |-> <<>>,
     profileUrl |-> profile_url, skills |-> <<>>, company |-> <<>>,
     website |-> <<>>, followers |-> 0, repos |-> 0]

\* the record each extractor returns for a page
GithubProfile(page, profile_url) ==
    [Defaults(profile_url) EXCEPT
        !.fullName = GithubFullName(page),
        !.bio = GithubBio(page.bio),
        !.location = GithubLocation(page.location),
        !.company = SingleValue(page.company),
        !.skills = GithubSkills(page.skills)]

BehanceProfile(page, profile_url) ==
    [Defaults(profile_url) EXCEPT
        !.fullName = BehanceFullName(page.name),
        !.bio = BehanceBio(page.bio),
        !.location = BehanceLocation(page.location),
        !.skills = BehanceSkills(page.skills)]

StackOverflowProfile(page, profile_url) ==
    [Defaults(profile_url) EXCEPT
        !.fullName = StackOverflowFullName(page.name),
        !.bio = StackOverflowBio(page.bio),
        !.location = SingleValue(page.location[1]),
        !.skills = StackOverflowSkills(page.skills)]

DevtoProfile(page, profile_url) ==
    [Defaults(profile_url) EXCEPT
        !.fullName = DevtoFullName(page.name),
        !.bio = DevtoBio(page.bio),
        !.location = SingleValue(page.location[1])]

\* the extractors
Sites == {"github", "behance", "stackoverflow", "devto"}

\* number of selectors of the bio and of the location of each extractor
BioSelectors(st) == IF st = "stackoverflow" THEN 1 ELSE 3
LocationSelectors(st) == IF st \in {"github", "behance"} THEN 3 ELSE 1

\* the URL of the page the extractor is given
PageUrl(st) ==
    IF st = "github" THEN GithubFullUrl(<<"/","a","l">>)
    ELSE IF st = "behance" THEN BehancePrefix \o <<"a","n","n">>
    ELSE IF st = "stackoverflow"
         THEN StackOverflowFullUrl(<<"/","u","s","e","r","s","/","1","2","/","j","o">>)
    ELSE DevtoFullUrl(<<"/","a","m","y">>)

\* a page on which every strategy of every field meets the same thing
\* (selectors an extractor does not have meet nothing)
UniformPage(st, name, bio, place, skills) ==
    [name |-> [i \in 1..(IF st = "github" THEN 3 ELSE 4) |-> name],
     nick |-> IF st = "github" THEN name ELSE NoElement,
     bio |-> [i \in 1..BioSelectors(st) |-> bio],
     location |-> [i \in 1..LocationSelectors(st) |-> place],
     company |-> IF st = "github" THEN place ELSE NoElement,
     skills |-> IF st = "devto" THEN Elements(<<>>) ELSE skills]

\* a page without any of the elements, and a page with all of them
BasePages(st) ==
    { UniformPage(st, NoElement, NoElement, NoElement, Elements(<<>>)),
      UniformPage(st, Element(<<" ","A","l","\n">>),
                  Element(<<" ","h","e","l","l","o"," ","w","o","r","l","d","!"," ">>),
                  Element(<<"P","u","n","e"," ">>),
                  Elements(<<Element(<<"G","o">>), Element(<<"U","X">>)>>)) }

\* the pages that are explored: one field of a base page at a time takes
\* every combination of what its strategies can meet
PagesOf(st) ==
    UNION { ( IF st = "github"
              THEN {[base EXCEPT !.name = pg.name, !.nick = pg.nick] :
                       pg \in GithubPages}
                   \cup {[base EXCEPT !.company = c] : c \in PlaceOutcomes}
              ELSE {[base EXCEPT !.name = n] : n \in NamePages} )
            \cup {[base EXCEPT !.bio = b] :
                     b \in [1..BioSelectors(st) -> BioOutcomes]}
            \cup {[base EXCEPT !.location = l] :
                     l \in [1..LocationSelectors(st) -> PlaceOutcomes]}
            \cup ( IF st = "devto" THEN {}
                   ELSE {[base EXCEPT !.skills = q] : q \in SkillQueries} )
          : base \in BasePages(st) }

extract_github_profile ==
    /\ site = "github" /\ extracted = <<>>
    /\ extracted' = <<GithubProfile(dom, PageUrl(site))>>
    /\ UNCHANGED <<site, dom, scraperVars, concurrentVars, pdfVars, resumeVars, stdout, stderr>>

extract_behance_profile ==
    /\ site = "behance" /\ extracted = <<>>
    /\ extracted' = <<BehanceProfile(dom, PageUrl(site))>>
    /\ UNCHANGED <<site, dom, scraperVars, concurrentVars, pdfVars, resumeVars, stdout, stderr>>

extract_stackoverflow_profile ==
    /\ site = "stackoverflow" /\ extracted = <<>>
    /\ extracted' = <<StackOverflowProfile(dom, PageUrl(site))>>
    /\ UNCHANGED <<site, dom, scraperVars, concurrentVars, pdfVars, resumeVars, stdout, stderr>>

extract_devto_profile ==
    /\ site = "devto" /\ extracted = <<>>
    /\ extracted' = <<DevtoProfile(dom, PageUrl(site))>>
    /\ UNCHANGED <<site, dom, scraperVars, concurrentVars, pdfVars, resumeVars, stdout, stderr>>

InitExtract ==
    /\ ScraperIdle /\ ConcurrentIdle /\ PdfIdle /\ ResumeIdle
    /\ stdout = <<>>
    /\ stderr = {}
    /\ site \in Sites
    /\ dom \in PagesOf(site)
    /\ extracted = <<>>

NextExtract ==
    \/ extract_github_profile \/ extract_behance_profile
    \/ extract_stackoverflow_profile \/ extract_devto_profile

SpecExtract == InitExtract /\ [][NextExtract]_vars

\* the stripped text of the first strategy of the chain whose element
\* exists and whose stripped text is not empty, longer than lo and, unless
\* hi is 0, shorter than hi; '' when no strategy has one
FirstGood(chain, lo, hi) ==
    LET good == {i \in 1..Len(chain) :
                    /\ chain[i].kind = "text"
                    /\ Strip(chain[i].text) # <<>>
                    /\ Len(Strip(chain[i].text)) > lo
                    /\ hi = 0 \/ Len(Strip(chain[i].text)) < hi}
    IN  IF good = {} THEN <<>>
        ELSE Strip(chain[CHOOSE i \in good : \A j \in good : i <= j].text)

\* a text cut to the 500 characters a bio may have
Capped(text) == IF Len(text) > 500 THEN SubSeq(text, 1, 500) ELSE text

\* C17: in the record of every extractor, the name, the bio and the
\* location that have a chain of strategies hold the trimmed text (the bio
\* cut to 500 characters) of the first strategy whose text is not empty and
\* within the bounds of the field; a strategy whose element has an empty
\* or out-of-bounds text neither wins nor stops the chain.
C17_FirstGoodStrategyWins ==
    extracted # <<>> =>
        LET profile == extracted[1]
        IN  /\ site = "github" =>
                /\ profile.fullName =
                      IF FirstGood(dom.name, 1, 0) # <<>>
                      THEN FirstGood(dom.name, 1, 0)
                      ELSE FirstGood(<<dom.nick>>, 0, 0)
                /\ profile.bio = Capped(FirstGood(dom.bio, 0, 0))
                /\ profile.location = FirstGood(dom.location, 0, 0)
            /\ site = "behance" =>
                /\ profile.fullName = FirstGood(dom.name, 1, 100)
                /\ profile.bio = FirstGood(dom.bio, 10, 500)
                /\ profile.location = FirstGood(dom.location, 0, 0)
            /\ site = "stackoverflow" =>
                profile.fullName = FirstGood(dom.name, 0, 100)
            /\ site = "devto" =>
                /\ profile.fullName = FirstGood(dom.name, 1, 100)
                /\ profile.bio = Capped(FirstGood(dom.bio, 5, 0))

\* the strategy met no element, or it raised
NoMatch(out) == out.kind \in {"none", "raise"}

\* what C18 says of one field: with no strategy matching the field keeps
\* its default; with only no-match strategies before a strategy that reads
\* the text good, the field holds good, trimmed
FallbackHonoured(chain, value, good) ==
    /\ (\A i \in 1..Len(chain) : NoMatch(chain[i])) => value = <<>>
    /\ \A j \in 1..Len(chain) :
          (chain[j] = Element(good) /\ \A i \in 1..(j - 1) : NoMatch(chain[i]))
              => value = Strip(good)

\* texts that pass the test of every extractor for their field
GoodName == <<" ","A","l","\n">>
GoodBio == <<" ","h","e","l","l","o"," ","w","o","r","l","d","!"," ">>
GoodPlace == <<"P","u","n","e"," ">>

\* C18: every extractor returns a full record whatever its strategies
\* meet; a strategy that finds no element or raises counts as no match, so
\* a field whose strategies all fail keeps its default ('' or []), the
\* fields that are never read keep theirs ('' and 0), and a field whose
\* first matching strategy comes after failing ones (the second one, in
\* particular) takes that strategy's trimmed text, whatever happens in
\* the other fields.
C18_NoMatchFallsThrough ==
    extracted # <<>> =>
        LET profile == extracted[1]
        IN  /\ Len(extracted) = 1
            /\ DOMAIN profile = DOMAIN Defaults(PageUrl(site))
            /\ profile.email = <<>> /\ profile.website = <<>>
            /\ profile.followers = 0 /\ profile.repos = 0
            /\ profile.profileUrl = PageUrl(site)
            /\ IF site = "github"
               THEN /\ FallbackHonoured(dom.name \o <<dom.nick>>,
                                        profile.fullName, GoodName)
                    /\ FallbackHonoured(<<dom.company>>, profile.company,
                                        GoodPlace)
               ELSE /\ FallbackHonoured(dom.name, profile.fullName, GoodName)
                    /\ profile.company = <<>>
            /\ FallbackHonoured(dom.bio, profile.bio, GoodBio)
            /\ FallbackHonoured(dom.location, profile.location, GoodPlace)
            /\ (dom.skills.kind = "raise" \/ dom.skills.els = <<>>
                    \/ dom.skills.els[1].kind = "raise")
                  => profile.skills = <<>>

\* GitHub: the first bio selector raised, the second one gave the bio, and
\* the name and the skills of the page were read as well
C18_Witness ==
    /\ site = "github" /\ extracted # <<>>
    /\ dom.bio = <<Raises, Element(GoodBio), NoElement>>
    /\ extracted[1].bio = Strip(GoodBio)
    /\ extracted[1].fullName = <<"A","l">>
    /\ extracted[1].skills = <<<<"G","o">>, <<"U","X">>>>

\* the position of the first skill element of the page whose trimmed text
\* is skill (0 when there is none)
FirstOccurrence(els, skill) ==
    IF \E i \in 1..Len(els) : els[i].kind = "text" /\ Strip(els[i].text) = skill
    THEN CHOOSE i \in 1..Len(els) :
            /\ els[i].kind = "text" /\ Strip(els[i].text) = skill
            /\ \A j \in 1..(i - 1) :
                  ~(els[j].kind = "text" /\ Strip(els[j].text) = skill)
    ELSE 0

NoDuplicateSkill(skills) ==
    \A i, j \in 1..Len(skills) : i # j => skills[i] # skills[j]

PageOrderOfFirstOccurrence(skills, els) ==
    /\ \A i \in 1..Len(skills) : FirstOccurrence(els, skills[i]) > 0
    /\ \A i, j \in 1..Len(skills) :
          i < j => FirstOccurrence(els, skills[i]) < FirstOccurrence(els, skills[j])

\* C20: the skills of the record of every extractor hold no entry twice,
\* stand in the page order of their first occurrence, and are at most as
\* many as the cap on the elements harvested (10 on Behance, 15 otherwise).
C20_SkillsDistinctOrderedCapped ==
    extracted # <<>> =>
        LET skills == extracted[1].skills
        IN  /\ NoDuplicateSkill(skills)
            /\ PageOrderOfFirstOccurrence(skills, dom.skills.els)
            /\ Len(skills) <= IF site = "behance" THEN 10 ELSE 15

\* C28: the bio of the record of every extractor has at most 500
\* characters, whatever the length of the text its strategies read.
C28_BioAtMost500 ==
    extracted # <<>> => Len(extracted[1].bio) <= 500

\* GitHub: the first bio selector read 501 characters, and the record
\* holds the first 500 of them
C28_Witness ==
    /\ site = "github" /\ extracted # <<>>
    /\ dom.bio[1] = Element(TextOfLength(501))
    /\ extracted[1].bio = TextOfLength(500)

\* Behance, which stores the bio uncut, took its longest admissible text
C28_WitnessBehance ==
    /\ site = "behance" /\ extracted # <<>>
    /\ Len(extracted[1].bio) = 499
====
